---- MODULE Spec2Model ----
(***************************************************************************)
(* Model of the Terraform diagram viewer backend: the graph builder        *)
(* (diagramGenerator.generateFromTerraform), the mutation operations of    *)
(* diagramGenerator and the diagram controller with its in-memory store.   *)
(*                                                                         *)
(* Text is modelled as a sequence of tokens.  A token is either one of the *)
(* punctuation characters ".", ":", "$", "{", "}" or a word that contains  *)
(* none of them, so that template literals are concatenations and          *)
(* String.split / String.match work on positions of the sequence.          *)
(***************************************************************************)
EXTENDS Integers, Sequences, FiniteSets, TLC

VARIABLES diagrams, resp, nops, parsedIn, built, alg, openai, inflight, gen, lay

vars == <<diagrams, resp, nops, parsedIn, built, alg, openai, inflight, gen, lay>>

(***************************************************************************)
(* Bounds of the model                                                     *)
(***************************************************************************)
MaxOps == 3
MaxDiagrams == 1

(***************************************************************************)
(* JavaScript values                                                       *)
(***************************************************************************)
\* the value `undefined` where a string is expected
Undefined == <<"#undefined">>
\* the value `undefined` where a number is expected
UndefNum == -1000000

\* String(undefined) === "undefined": what a template literal or an object
\* key makes of a value
ToStr(v) == IF v = Undefined THEN <<"undefined">> ELSE v

W(s) == <<s>>
Dot == <<".">>
Colon == <<":">>

\* a || b on numbers: undefined and 0 are falsy
NumOr(a, b) == IF a = UndefNum \/ a = 0 THEN b ELSE a

\* values of a block's attribute map
VUndef == [tag |-> "undefined", str |-> <<>>, items |-> <<>>, num |-> 0]
VStr(s) == [tag |-> "string", str |-> s, items |-> <<>>, num |-> 0]
VList(xs) == [tag |-> "list", str |-> <<>>, items |-> xs, num |-> 0]
VMap(es) == [tag |-> "map", str |-> <<>>, items |-> es, num |-> 0]
VNull == [tag |-> "null", str |-> <<>>, items |-> <<>>, num |-> 0]
VBool(b) ==
  [tag |-> "boolean", str |-> <<>>, items |-> <<>>, num |-> IF b THEN 1 ELSE 0]
VNum(n) == [tag |-> "number", str |-> <<>>, items |-> <<>>, num |-> n]
KV(k, v) == [key |-> k, val |-> v]

\* obj[key] on a map value (undefined when the key is absent)
GetKey(m, k) ==
  IF m.tag = "map" /\ \E i \in DOMAIN m.items : m.items[i].key = k
  THEN m.items[CHOOSE i \in DOMAIN m.items : m.items[i].key = k].val
  ELSE VUndef

\* Math.round on a coordinate held in half pixels (ties go up)
MathRound(h) == (h + 1) \div 2

RECURSIVE SeqSum(_)
SeqSum(s) == IF s = <<>> THEN 0 ELSE Head(s) + SeqSum(Tail(s))

SetMax(S) == IF S = {} THEN 0 ELSE CHOOSE m \in S : \A x \in S : x <= m

\* Array.prototype.filter
RECURSIVE SelectSeqBy(_, _)
SelectSeqBy(s, keep) ==
  IF s = <<>> THEN <<>>
  ELSE IF 1 \in keep
       THEN <<Head(s)>> \o SelectSeqBy(Tail(s), {i - 1 : i \in keep \ {1}})
       ELSE SelectSeqBy(Tail(s), {i - 1 : i \in keep \ {1}})

(***************************************************************************)
(* graphlib.Graph({directed: true, compound: true}): not a multigraph, so  *)
(* there is at most one edge per ordered pair.  Nodes and edges are kept   *)
(* in insertion order.                                                     *)
(***************************************************************************)
\* setDefaultNodeLabel(() => ({}))
DefaultNodeLabel ==
  [id |-> Undefined, type |-> Undefined, label |-> Undefined,
   name |-> Undefined, resourceType |-> Undefined, config |-> VUndef,
   x |-> UndefNum, y |-> UndefNum, width |-> UndefNum, height |-> UndefNum,
   icon |-> Undefined]

\* setDefaultEdgeLabel(() => ({}))
DefaultEdgeLabel ==
  [id |-> Undefined, sourceId |-> Undefined, targetId |-> Undefined,
   type |-> Undefined, label |-> Undefined, verb |-> Undefined]

NoGraphLabel ==
  [width |-> UndefNum, height |-> UndefNum, rankdir |-> "none",
   nodesep |-> UndefNum, ranksep |-> UndefNum,
   marginx |-> UndefNum, marginy |-> UndefNum]

NewGraph == [nodes |-> <<>>, edges |-> <<>>, graph |-> NoGraphLabel]

hasNode(g, v) == \E i \in DOMAIN g.nodes : g.nodes[i].v = ToStr(v)

nodeLabel(g, v) ==
  g.nodes[CHOOSE i \in DOMAIN g.nodes : g.nodes[i].v = ToStr(v)].label

graphNodes(g) == [i \in DOMAIN g.nodes |-> g.nodes[i].v]

setNode(g, v, value) ==
  IF hasNode(g, v)
  THEN [g EXCEPT !.nodes = [i \in DOMAIN g.nodes |->
          IF g.nodes[i].v = ToStr(v)
          THEN [v |-> ToStr(v), label |-> value] ELSE g.nodes[i]]]
  ELSE [g EXCEPT !.nodes = Append(g.nodes, [v |-> ToStr(v), label |-> value])]

\* setNode(v) with one argument, as setEdge calls it
touchNode(g, v) ==
  IF hasNode(g, v) THEN g ELSE setNode(g, v, DefaultNodeLabel)

hasEdge(g, v, w) ==
  \E i \in DOMAIN g.edges : g.edges[i].v = ToStr(v) /\ g.edges[i].w = ToStr(w)

edgeLabel(g, v, w) ==
  g.edges[CHOOSE i \in DOMAIN g.edges :
            g.edges[i].v = ToStr(v) /\ g.edges[i].w = ToStr(w)].label

setEdgeMultigraph(g, v, w, value) ==
  LET g2 == touchNode(touchNode(g, v), w)
  IN  [g2 EXCEPT !.edges =
         Append(g2.edges, [v |-> ToStr(v), w |-> ToStr(w), label |-> value])]

setEdge(g, v, w, value) ==
  IF hasEdge(g, v, w)
  THEN [g EXCEPT !.edges = [i \in DOMAIN g.edges |->
          IF g.edges[i].v = ToStr(v) /\ g.edges[i].w = ToStr(w)
          THEN [v |-> ToStr(v), w |-> ToStr(w), label |-> value]
          ELSE g.edges[i]]]
  ELSE LET g2 == touchNode(touchNode(g, v), w)
       IN  [g2 EXCEPT !.edges =
              Append(g2.edges, [v |-> ToStr(v), w |-> ToStr(w), label |-> value])]

removeEdge(g, v, w) ==
  [g EXCEPT !.edges = SelectSeqBy(g.edges,
     {i \in DOMAIN g.edges :
        ~(g.edges[i].v = ToStr(v) /\ g.edges[i].w = ToStr(w))})]

\* the edges that enter or leave v
nodeEdges(g, v) ==
  SelectSeqBy(g.edges,
     {i \in DOMAIN g.edges : g.edges[i].v = ToStr(v) \/ g.edges[i].w = ToStr(v)})

\* removeNode also removes the edges that are still incident to v
removeNode(g, v) ==
  IF ~hasNode(g, v) THEN g
  ELSE [g EXCEPT
          !.nodes = SelectSeqBy(g.nodes,
             {i \in DOMAIN g.nodes : g.nodes[i].v # ToStr(v)}),
          !.edges = SelectSeqBy(g.edges,
             {i \in DOMAIN g.edges :
                g.edges[i].v # ToStr(v) /\ g.edges[i].w # ToStr(v)})]

setGraph(g, label) == [g EXCEPT !.graph = label]

(***************************************************************************)
(* applyLayout: dagre.layout abstracted as a deterministic layered layout. *)
(* A node's rank is the length of the longest edge path that ends in it    *)
(* (capped, so that cycles terminate); ranks are laid out along the rank   *)
(* direction and the nodes of a rank in insertion order.  Coordinates are  *)
(* node centres, held in half pixels.  The layout reads the nodes' width   *)
(* and height and the edges, never the nodes' previous x and y.            *)
(***************************************************************************)
LayoutOptions(rankdir, nodesep, ranksep, marginx, marginy) ==
  [rankdir |-> rankdir, nodesep |-> nodesep, ranksep |-> ranksep,
   marginx |-> marginx, marginy |-> marginy]

\* applyLayout(graph) without options: options = {}
NoOptions == LayoutOptions("none", UndefNum, UndefNum, UndefNum, UndefNum)

NodeIndex(g, v) == CHOOSE i \in DOMAIN g.nodes : g.nodes[i].v = v

\* edges as pairs of node positions, self loops left out
RankEdges(g) ==
  {<<NodeIndex(g, g.edges[k].v), NodeIndex(g, g.edges[k].w)>> :
     k \in {k \in DOMAIN g.edges : g.edges[k].v # g.edges[k].w}}

RECURSIVE RankIter(_, _, _, _)
RankIter(r, E, n, k) ==
  IF k = 0 THEN r
  ELSE LET cap(x) == IF x > n - 1 THEN n - 1 ELSE x
           r2 == [j \in 1..n |->
                    cap(SetMax({r[e[1]] + 1 : e \in {e \in E : e[2] = j}}))]
       IN  RankIter(r2, E, n, k - 1)

Ranks(g) ==
  LET n == Len(g.nodes)
  IN  RankIter([j \in 1..n |-> 0], RankEdges(g), n, n)

dagreLayout(g) ==
  LET n == Len(g.nodes)
      rk == Ranks(g)
      lr == g.graph.rankdir = "LR"
      \* extent of node i along and across the rank direction
      along(i) == NumOr(IF lr THEN g.nodes[i].label.width
                        ELSE g.nodes[i].label.height, 0)
      across(i) == NumOr(IF lr THEN g.nodes[i].label.height
                         ELSE g.nodes[i].label.width, 0)
      marginAlong == IF lr THEN g.graph.marginx ELSE g.graph.marginy
      marginAcross == IF lr THEN g.graph.marginy ELSE g.graph.marginx
      maxRank == SetMax({rk[i] : i \in 1..n})
      inRank(r) == {i \in 1..n : rk[i] = r}
      rankSize(r) == SetMax({along(i) : i \in inRank(r)})
      before(i) == {j \in inRank(rk[i]) : j < i}
      posAlong(i) ==
        2 * marginAlong
        + SeqSum([r \in 1..rk[i] |-> 2 * (rankSize(r - 1) + g.graph.ranksep)])
        + rankSize(rk[i])
      posAcross(i) ==
        2 * marginAcross
        + SeqSum([j \in 1..n |->
             IF j \in before(i) THEN 2 * (across(j) + g.graph.nodesep) ELSE 0])
        + across(i)
      rankExtent(r) ==
        SeqSum([j \in 1..n |-> IF j \in inRank(r) THEN across(j) ELSE 0])
        + g.graph.nodesep * (IF inRank(r) = {} THEN 0
                             ELSE Cardinality(inRank(r)) - 1)
      sizeAlong ==
        2 * marginAlong
        + SeqSum([r \in 1..(maxRank + 1) |-> rankSize(r - 1)])
        + g.graph.ranksep * maxRank
      sizeAcross ==
        2 * marginAcross + SetMax({rankExtent(r) : r \in 0..maxRank})
  IN  [g EXCEPT
         !.nodes = [i \in 1..n |->
            [g.nodes[i] EXCEPT
               !.label.x = IF lr THEN posAlong(i) ELSE posAcross(i),
               !.label.y = IF lr THEN posAcross(i) ELSE posAlong(i)]],
         !.graph.width = IF lr THEN sizeAlong ELSE sizeAcross,
         !.graph.height = IF lr THEN sizeAcross ELSE sizeAlong]

\* returns the graph after layout; graph.graph() is its layout information
applyLayout(g, options) ==
  dagreLayout(setGraph(g,
    [width |-> UndefNum, height |-> UndefNum,
     rankdir |-> IF options.rankdir = "none" THEN "LR" ELSE options.rankdir,
     nodesep |-> NumOr(options.nodesep, 70),
     ranksep |-> NumOr(options.ranksep, 100),
     marginx |-> NumOr(options.marginx, 20),
     marginy |-> NumOr(options.marginy, 20)]))

(***************************************************************************)
(* Diagram data <-> graph                                                  *)
(***************************************************************************)
\* x || y on strings: undefined and "" are falsy
StrOr(a, b) == IF a = Undefined \/ a = <<>> THEN b ELSE a

\* convertGraphToDiagramData that lets the edge data decide the endpoints
convertGraphToDiagramDataEdgeData(g) ==
  [nodes |-> [i \in DOMAIN g.nodes |->
      [g.nodes[i].label EXCEPT
         !.id = g.nodes[i].v,
         !.x = MathRound(NumOr(g.nodes[i].label.x, 0)),
         !.y = MathRound(NumOr(g.nodes[i].label.y, 0))]],
   edges |-> [k \in DOMAIN g.edges |->
      [g.edges[k].label EXCEPT
         !.id = StrOr(g.edges[k].label.id,
                      g.edges[k].v \o Colon \o g.edges[k].w),
         !.sourceId = StrOr(g.edges[k].label.sourceId, g.edges[k].v),
         !.targetId = StrOr(g.edges[k].label.targetId, g.edges[k].w)]],
   width |-> NumOr(g.graph.width, 800),
   height |-> NumOr(g.graph.height, 600)]

convertGraphToDiagramData(g) ==
  [nodes |-> [i \in DOMAIN g.nodes |->
      [g.nodes[i].label EXCEPT
         !.id = g.nodes[i].v,
         !.x = MathRound(NumOr(g.nodes[i].label.x, 0)),
         !.y = MathRound(NumOr(g.nodes[i].label.y, 0))]],
   edges |-> [k \in DOMAIN g.edges |->
      [g.edges[k].label EXCEPT
         !.id = StrOr(g.edges[k].label.id,
                      g.edges[k].v \o Colon \o g.edges[k].w),
         !.sourceId = g.edges[k].v,
         !.targetId = g.edges[k].w]],
   width |-> NumOr(g.graph.width, 800),
   height |-> NumOr(g.graph.height, 600)]

\* a stored coordinate (pixels) as the number the graph holds (half pixels)
Px(x) == IF x = UndefNum THEN UndefNum ELSE 2 * x

RECURSIVE SetNodes(_, _)
SetNodes(g, ns) ==
  IF ns = <<>> THEN g
  ELSE SetNodes(setNode(g, Head(ns).id,
                  [Head(ns) EXCEPT !.x = Px(Head(ns).x), !.y = Px(Head(ns).y)]),
                Tail(ns))

RECURSIVE SetEdges(_, _)
SetEdges(g, es) ==
  IF es = <<>> THEN g
  ELSE SetEdges(setEdge(g, Head(es).sourceId, Head(es).targetId, Head(es)),
                Tail(es))

\* convertDiagramDataToGraph that inserts the nodes last to first
convertDiagramDataToGraphReversed(d) ==
  setGraph(SetEdges(SetNodes(NewGraph,
                             [i \in DOMAIN d.nodes |->
                                d.nodes[Len(d.nodes) + 1 - i]]),
                    d.edges),
    [NoGraphLabel EXCEPT !.width = NumOr(d.width, 800),
                         !.height = NumOr(d.height, 600)])

convertDiagramDataToGraph(d) ==
  setGraph(SetEdges(SetNodes(NewGraph, d.nodes), d.edges),
    [NoGraphLabel EXCEPT !.width = NumOr(d.width, 800),
                         !.height = NumOr(d.height, 600)])

(***************************************************************************)
(* diagramGenerator: the mutation operations.  Each returns a result       *)
(*   [ok, err, data, ranLayout]                                            *)
(* where err names the Error thrown (ok = FALSE) and ranLayout records     *)
(* whether applyLayout was called.                                         *)
(***************************************************************************)
NoData == [nodes |-> <<>>, edges |-> <<>>, width |-> UndefNum, height |-> UndefNum]

Returned(g, ran) ==
  [ok |-> TRUE, err |-> "none", data |-> convertGraphToDiagramData(g),
   ranLayout |-> ran]

Thrown(e) == [ok |-> FALSE, err |-> e, data |-> NoData, ranLayout |-> FALSE]

\* a value of `nodes` or `edges` that is not an array (null, an object):
\* diagramData.nodes.forEach / diagramData.edges.forEach then throw a TypeError
NotArrayNodes == <<[DefaultNodeLabel EXCEPT !.id = <<"#not-an-array">>]>>
NotArrayEdges == <<[DefaultEdgeLabel EXCEPT !.id = <<"#not-an-array">>]>>
IsArrays(diagramData) ==
  diagramData.nodes # NotArrayNodes /\ diagramData.edges # NotArrayEdges

\* { ...a, ...b } on node records: the fields b carries replace those of a
SpreadNode(a, b) ==
  [id |-> IF b.id = Undefined THEN a.id ELSE b.id,
   type |-> IF b.type = Undefined THEN a.type ELSE b.type,
   label |-> IF b.label = Undefined THEN a.label ELSE b.label,
   name |-> IF b.name = Undefined THEN a.name ELSE b.name,
   resourceType |-> IF b.resourceType = Undefined THEN a.resourceType
                    ELSE b.resourceType,
   config |-> IF b.config = VUndef THEN a.config ELSE b.config,
   x |-> IF b.x = UndefNum THEN a.x ELSE b.x,
   y |-> IF b.y = UndefNum THEN a.y ELSE b.y,
   width |-> IF b.width = UndefNum THEN a.width ELSE b.width,
   height |-> IF b.height = UndefNum THEN a.height ELSE b.height,
   icon |-> IF b.icon = Undefined THEN a.icon ELSE b.icon]

\* { ...a, ...b } on edge records
SpreadEdge(a, b) ==
  [id |-> IF b.id = Undefined THEN a.id ELSE b.id,
   sourceId |-> IF b.sourceId = Undefined THEN a.sourceId ELSE b.sourceId,
   targetId |-> IF b.targetId = Undefined THEN a.targetId ELSE b.targetId,
   type |-> IF b.type = Undefined THEN a.type ELSE b.type,
   label |-> IF b.label = Undefined THEN a.label ELSE b.label,
   verb |-> IF b.verb = Undefined THEN a.verb ELSE b.verb]

updateLayout(diagramData, layoutOptions) ==
  IF ~IsArrays(diagramData) THEN Thrown("TypeError") ELSE
  Returned(applyLayout(convertDiagramDataToGraph(diagramData), layoutOptions),
           TRUE)

\* addNode that keys the new node by its name instead of its id
addNodeKeyedByName(diagramData, nodeData) ==
  LET graph == convertDiagramDataToGraph(diagramData)
      g2 == setNode(graph, nodeData.name,
              [nodeData EXCEPT !.width = NumOr(nodeData.width, 150),
                               !.height = NumOr(nodeData.height, 100)])
  IN  Returned(applyLayout(g2, NoOptions), TRUE)

addNode(diagramData, nodeData) ==
  IF ~IsArrays(diagramData) THEN Thrown("TypeError") ELSE
  LET graph == convertDiagramDataToGraph(diagramData)
      g2 == setNode(graph, nodeData.id,
              [nodeData EXCEPT !.width = NumOr(nodeData.width, 150),
                               !.height = NumOr(nodeData.height, 100)])
  IN  Returned(applyLayout(g2, NoOptions), TRUE)

\* updateNode that files the merged data under the id the patch carries
updateNodeRekeys(diagramData, nodeId, nodeData) ==
  IF ~IsArrays(diagramData) THEN Thrown("TypeError") ELSE
  LET graph == convertDiagramDataToGraph(diagramData)
  IN  IF ~hasNode(graph, nodeId) THEN Thrown("NodeNotFound")
      ELSE LET existingData == nodeLabel(graph, nodeId)
               g2 == setNode(graph, StrOr(nodeData.id, nodeId),
                             SpreadNode(existingData, nodeData))
           IN  IF nodeData.x # UndefNum \/ nodeData.y # UndefNum
               THEN Returned(applyLayout(g2, NoOptions), TRUE)
               ELSE Returned(g2, FALSE)

updateNode(diagramData, nodeId, nodeData) ==
  IF ~IsArrays(diagramData) THEN Thrown("TypeError") ELSE
  LET graph == convertDiagramDataToGraph(diagramData)
  IN  IF ~hasNode(graph, nodeId) THEN Thrown("NodeNotFound")
      ELSE LET existingData == nodeLabel(graph, nodeId)
               g2 == setNode(graph, nodeId, SpreadNode(existingData, nodeData))
           IN  IF nodeData.x # UndefNum \/ nodeData.y # UndefNum
               THEN Returned(applyLayout(g2, NoOptions), TRUE)
               ELSE Returned(g2, FALSE)

RECURSIVE RemoveEdges(_, _)
RemoveEdges(g, es) ==
  IF es = <<>> THEN g
  ELSE RemoveEdges(removeEdge(g, Head(es).v, Head(es).w), Tail(es))

\* deleteNode that takes the node out and returns the edges it read
deleteNodeNoCascade(diagramData, nodeId) ==
  LET graph == convertDiagramDataToGraph(diagramData)
  IN  IF ~hasNode(graph, nodeId) THEN Thrown("NodeNotFound")
      ELSE Returned([applyLayout(removeNode(graph, nodeId), NoOptions)
                       EXCEPT !.edges = graph.edges], TRUE)

\* deleteNode that rebuilds the graph from the remaining nodes only
deleteNodeDropsAllEdges(diagramData, nodeId) ==
  LET graph == convertDiagramDataToGraph(diagramData)
  IN  IF ~hasNode(graph, nodeId) THEN Thrown("NodeNotFound")
      ELSE Returned(applyLayout(
             [removeNode(graph, nodeId) EXCEPT !.edges = <<>>], NoOptions), TRUE)

deleteNode(diagramData, nodeId) ==
  IF ~IsArrays(diagramData) THEN Thrown("TypeError") ELSE
  LET graph == convertDiagramDataToGraph(diagramData)
  IN  IF ~hasNode(graph, nodeId) THEN Thrown("NodeNotFound")
      ELSE LET g2 == RemoveEdges(graph, nodeEdges(graph, nodeId))
               g3 == removeNode(g2, nodeId)
           IN  Returned(applyLayout(g3, NoOptions), TRUE)

\* addConnection without the two hasNode checks
addConnectionUnchecked(diagramData, connectionData) ==
  LET sourceId == connectionData.sourceId
      targetId == connectionData.targetId
      graph == convertDiagramDataToGraph(diagramData)
      edgeId == ToStr(sourceId) \o Colon \o ToStr(targetId)
      g2 == setEdge(graph, sourceId, targetId,
              [DefaultEdgeLabel EXCEPT
                 !.id = edgeId, !.label = connectionData.label])
  IN  Returned(applyLayout(g2, NoOptions), TRUE)

addConnection(diagramData, connectionData) ==
  IF ~IsArrays(diagramData) THEN Thrown("TypeError") ELSE
  LET sourceId == connectionData.sourceId
      targetId == connectionData.targetId
      graph == convertDiagramDataToGraph(diagramData)
  IN  IF ~hasNode(graph, sourceId) THEN Thrown("SourceNotFound")
      ELSE IF ~hasNode(graph, targetId) THEN Thrown("TargetNotFound")
      ELSE LET edgeId == ToStr(sourceId) \o Colon \o ToStr(targetId)
               g2 == setEdge(graph, sourceId, targetId,
                       [DefaultEdgeLabel EXCEPT
                          !.id = edgeId, !.label = connectionData.label])
           IN  Returned(applyLayout(g2, NoOptions), TRUE)

\* connectionId.split(':')
RECURSIVE SplitColon(_, _)
SplitColon(s, cur) ==
  IF s = <<>> THEN <<cur>>
  ELSE IF Head(s) = ":" THEN <<cur>> \o SplitColon(Tail(s), <<>>)
       ELSE SplitColon(Tail(s), Append(cur, Head(s)))

\* const [sourceId, targetId] = connectionId.split(':')
ParsedSource(connectionId) == SplitColon(connectionId, <<>>)[1]
ParsedTarget(connectionId) ==
  LET parts == SplitColon(connectionId, <<>>)
  IN  IF Len(parts) >= 2 THEN parts[2] ELSE Undefined

updateConnection(diagramData, connectionId, connectionData) ==
  IF ~IsArrays(diagramData) THEN Thrown("TypeError") ELSE
  LET sourceId == ParsedSource(connectionId)
      targetId == ParsedTarget(connectionId)
      graph == convertDiagramDataToGraph(diagramData)
  IN  IF ~hasEdge(graph, sourceId, targetId) THEN Thrown("ConnectionNotFound")
      ELSE LET existingData == edgeLabel(graph, sourceId, targetId)
               g2 == setEdge(graph, sourceId, targetId,
                       SpreadEdge(existingData, connectionData))
           IN  Returned(applyLayout(g2, NoOptions), TRUE)

deleteConnection(diagramData, connectionId) ==
  IF ~IsArrays(diagramData) THEN Thrown("TypeError") ELSE
  LET sourceId == ParsedSource(connectionId)
      targetId == ParsedTarget(connectionId)
      graph == convertDiagramDataToGraph(diagramData)
  IN  IF ~hasEdge(graph, sourceId, targetId) THEN Thrown("ConnectionNotFound")
      ELSE Returned(applyLayout(removeEdge(graph, sourceId, targetId),
                                NoOptions), TRUE)

(***************************************************************************)
(* diagramGenerator.generateFromTerraform: the graph builder.              *)
(* parsedData has one sequence of blocks [rtype, name, config] per section *)
(* (in the iteration order of the parsed object; rtype is unused for       *)
(* modules, variables and outputs); an absent section is the empty one.    *)
(***************************************************************************)
Block(rtype, name, config) == [rtype |-> rtype, name |-> name, config |-> config]

NodeLabel(id, type, resourceType, label, name, config, width, height) ==
  [id |-> id, type |-> type, label |-> label, name |-> name,
   resourceType |-> resourceType, config |-> config,
   x |-> UndefNum, y |-> UndefNum, width |-> width, height |-> height,
   icon |-> Undefined]

resourceIdOf(b) == <<"resource", ".">> \o b.rtype \o Dot \o b.name
moduleIdOf(b) == <<"module", ".">> \o b.name
dataIdOf(b) == <<"data", ".">> \o b.rtype \o Dot \o b.name
\* the id of a variable formed with the kind value
varIdOfKind(b) == <<"variable", ".">> \o b.name

varIdOf(b) == <<"var", ".">> \o b.name
outputIdOf(b) == <<"output", ".">> \o b.name

RECURSIVE processResources(_, _)
processResources(g, bs) ==
  IF bs = <<>> THEN g
  ELSE LET b == Head(bs)
       IN  processResources(
             setNode(g, resourceIdOf(b),
               NodeLabel(resourceIdOf(b), W("resource"), b.rtype,
                         b.rtype \o Dot \o b.name, b.name, b.config, 180, 80)),
             Tail(bs))

RECURSIVE processModules(_, _)
processModules(g, bs) ==
  IF bs = <<>> THEN g
  ELSE LET b == Head(bs)
       IN  processModules(
             setNode(g, moduleIdOf(b),
               NodeLabel(moduleIdOf(b), W("module"), Undefined,
                         moduleIdOf(b), b.name, b.config, 200, 100)),
             Tail(bs))

RECURSIVE processDataSources(_, _)
processDataSources(g, bs) ==
  IF bs = <<>> THEN g
  ELSE LET b == Head(bs)
       IN  processDataSources(
             setNode(g, dataIdOf(b),
               NodeLabel(dataIdOf(b), W("data"), b.rtype,
                         dataIdOf(b), b.name, b.config, 180, 70)),
             Tail(bs))

RECURSIVE processVariables(_, _)
processVariables(g, bs) ==
  IF bs = <<>> THEN g
  ELSE LET b == Head(bs)
       IN  processVariables(
             setNode(g, varIdOf(b),
               NodeLabel(varIdOf(b), W("variable"), Undefined,
                         varIdOf(b), b.name, b.config, 150, 60)),
             Tail(bs))

RECURSIVE processOutputs(_, _)
processOutputs(g, bs) ==
  IF bs = <<>> THEN g
  ELSE LET b == Head(bs)
       IN  processOutputs(
             setNode(g, outputIdOf(b),
               NodeLabel(outputIdOf(b), W("output"), Undefined,
                         outputIdOf(b), b.name, b.config, 150, 60)),
             Tail(bs))

\* value.match(/\${([^}]+)}/g) mapped through substring(2, length - 1):
\* the reference paths of a string, left to right
RECURSIVE RefMatches(_, _)
RefMatches(s, i) ==
  IF i > Len(s) THEN <<>>
  ELSE LET closes == {j \in (i + 3)..Len(s) : s[j] = "}"}
           opens == s[i] = "$" /\ i + 2 <= Len(s) /\ s[i + 1] = "{"
                    /\ s[i + 2] # "}"
       IN  IF opens /\ closes # {}
           THEN LET j == CHOOSE j \in closes : \A k \in closes : j <= k
                IN  <<SubSeq(s, i + 2, j - 1)>> \o RefMatches(s, j + 1)
           ELSE RefMatches(s, i + 1)

\* refPath.startsWith('resource.') || 'data.' || 'var.' || 'module.'
HasRefPrefix(refPath) ==
  /\ Len(refPath) >= 2
  /\ refPath[1] \in {"resource", "data", "var", "module"}
  /\ refPath[2] = "."

RECURSIVE AddRefEdges(_, _, _, _)
AddRefEdges(g, refs, key, sourceId) ==
  IF refs = <<>> THEN g
  ELSE LET refPath == Head(refs)
           g2 == IF HasRefPrefix(refPath) /\ hasNode(g, refPath)
                 THEN setEdge(g, refPath, sourceId,
                        [DefaultEdgeLabel EXCEPT
                           !.id = refPath \o Colon \o sourceId,
                           !.type = W("reference"), !.label = key])
                 ELSE g
       IN  AddRefEdges(g2, Tail(refs), key, sourceId)

\* findReferencesInObject(obj, sourceId, graph); FindInItems walks the
\* elements of an array or the properties of an object
RECURSIVE findReferencesInObject(_, _, _), FindInItems(_, _, _, _)
findReferencesInObject(obj, sourceId, g) ==
  IF obj.tag \notin {"list", "map"} THEN g
  ELSE FindInItems(obj.items, obj.tag = "map", sourceId, g)

FindInItems(items, isMap, sourceId, g) ==
  IF items = <<>> THEN g
  ELSE LET g2 ==
             IF ~isMap THEN findReferencesInObject(Head(items), sourceId, g)
             ELSE LET key == Head(items).key
                      value == Head(items).val
                  IN  IF value.tag = "string"
                      THEN AddRefEdges(g, RefMatches(value.str, 1), key, sourceId)
                      ELSE findReferencesInObject(value, sourceId, g)
       IN  FindInItems(Tail(items), isMap, sourceId, g2)

\* resource.depends_on.forEach(dependency => ...)
RECURSIVE AddDependsOn(_, _, _)
AddDependsOn(g, deps, blockId) ==
  IF deps = <<>> THEN g
  ELSE LET d == Head(deps)
           g2 == IF d.tag = "string" /\ hasNode(g, d.str)
                 THEN setEdge(g, d.str, blockId,
                        [DefaultEdgeLabel EXCEPT
                           !.id = d.str \o Colon \o blockId,
                           !.type = W("depends_on"),
                           !.label = W("depends_on")])
                 ELSE g
       IN  AddDependsOn(g2, Tail(deps), blockId)

\* the body of processRelationships for one resource or module block
RelateBlock(g, config, blockId) ==
  LET dep == GetKey(config, W("depends_on"))
      g2 == IF dep.tag = "list" THEN AddDependsOn(g, dep.items, blockId) ELSE g
  IN  findReferencesInObject(config, blockId, g2)

RECURSIVE RelateResources(_, _)
RelateResources(g, bs) ==
  IF bs = <<>> THEN g
  ELSE RelateResources(RelateBlock(g, Head(bs).config, resourceIdOf(Head(bs))),
                       Tail(bs))

RECURSIVE RelateModules(_, _)
RelateModules(g, bs) ==
  IF bs = <<>> THEN g
  ELSE RelateModules(RelateBlock(g, Head(bs).config, moduleIdOf(Head(bs))),
                     Tail(bs))

processRelationships(g, parsedData) ==
  RelateModules(RelateResources(g, parsedData.resource), parsedData.module)

generateFromTerraform(parsedData) ==
  LET g1 == processResources(NewGraph, parsedData.resource)
      g2 == processModules(g1, parsedData.module)
      g3 == processDataSources(g2, parsedData.data)
      g4 == processVariables(g3, parsedData.variable)
      g5 == processOutputs(g4, parsedData.output)
      g6 == processRelationships(g5, parsedData)
  IN  convertGraphToDiagramData(applyLayout(g6, NoOptions))

(***************************************************************************)
(* utils/validator (joi schemas).  joi.string() rejects the empty string;  *)
(* the node schema allows unknown keys, the connection schema does not.    *)
(***************************************************************************)
JoiString(v) == v # <<>>
JoiRequiredString(v) == v # Undefined /\ v # <<>>

validateNodeData(nodeData) ==
  /\ JoiString(nodeData.id)
  /\ JoiRequiredString(nodeData.type)
  /\ JoiRequiredString(nodeData.label)
  /\ JoiString(nodeData.name)
  /\ JoiString(nodeData.resourceType)

validateConnectionData(connectionData) ==
  /\ JoiRequiredString(connectionData.sourceId)
  /\ JoiRequiredString(connectionData.targetId)
  /\ JoiString(connectionData.label)
  /\ connectionData.type \in {Undefined, W("depends_on"), W("reference")}
  /\ connectionData.id = Undefined

(***************************************************************************)
(* diagramEnhancer.polishDiagram.  `reply` is what the enhancer does on    *)
(* this call: "nokey" (OPENAI_API_KEY unset, openai undefined), "rejects"  *)
(* (the completion request fails), "unparsable" (JSON.parse throws) or     *)
(* "json" with the parsed object: its `id` key, and its `nodes` and `edges`*)
(* keys, each absent, an array of enhancements or another value.           *)
(***************************************************************************)
NodeEnhancement(id, label, icon) == [id |-> id, label |-> label, icon |-> icon]
EdgeEnhancement(id, verb) == [id |-> id, verb |-> verb]

Json(idGiven, id, nodesKind, nodes, edgesKind, edges) ==
  [idGiven |-> idGiven, id |-> id, nodesKind |-> nodesKind, nodes |-> nodes,
   edgesKind |-> edgesKind, edges |-> edges]

NoJson == Json(FALSE, "", "absent", <<>>, "absent", <<>>)

Reply(mode, json) == [mode |-> mode, json |-> json]

WithoutKey == Reply("nokey", NoJson)

\* json.nodes.find(n => n.id === id): the position of the first match, or 0
FindById(items, id) ==
  IF \E k \in DOMAIN items : items[k].id = id
  THEN CHOOSE k \in DOMAIN items :
         items[k].id = id /\ \A j \in 1..(k - 1) : items[j].id # id
  ELSE 0

enhancedNodes(diagramData, items) ==
  [i \in DOMAIN diagramData.nodes |->
     LET originalNode == diagramData.nodes[i]
         k == FindById(items, originalNode.id)
     IN  IF k = 0 THEN originalNode
         ELSE [originalNode EXCEPT
                 !.label = StrOr(items[k].label,
                                 StrOr(originalNode.label, originalNode.name)),
                 !.icon = StrOr(items[k].icon, originalNode.icon)]]

enhancedEdges(diagramData, items) ==
  [i \in DOMAIN diagramData.edges |->
     LET originalEdge == diagramData.edges[i]
         k == FindById(items, originalEdge.id)
     IN  IF k = 0 \/ StrOr(items[k].verb, Undefined) = Undefined
         THEN originalEdge
         ELSE [originalEdge EXCEPT !.verb = items[k].verb]]

Polished(threw, polished, json) ==
  [threw |-> threw, polished |-> polished, json |-> json]

polishDiagram(diagramData, reply) ==
  IF reply.mode = "nokey" THEN Polished(FALSE, FALSE, NoJson)
  ELSE IF ~IsArrays(diagramData) THEN Polished(TRUE, FALSE, NoJson)
  ELSE IF reply.mode = "rejects" THEN Polished(TRUE, FALSE, NoJson)
  ELSE IF reply.mode = "unparsable" THEN Polished(FALSE, FALSE, NoJson)
  ELSE LET json == reply.json
       IN  Polished(FALSE, TRUE,
             [json EXCEPT
                !.nodes = IF json.nodesKind = "array"
                          THEN enhancedNodes(diagramData, json.nodes)
                          ELSE NotArrayNodes,
                !.edges = IF json.edgesKind = "array"
                          THEN enhancedEdges(diagramData, json.edges)
                          ELSE NotArrayEdges])

\* { ...diagram, ...polished }: every key of the reply replaces the diagram's
MergePolished(diagram, polished) ==
  [diagram EXCEPT
     !.id = IF polished.json.idGiven THEN polished.json.id ELSE diagram.id,
     !.nodes = IF polished.json.nodesKind = "absent" THEN diagram.nodes
               ELSE polished.json.nodes,
     !.edges = IF polished.json.edgesKind = "absent" THEN diagram.edges
               ELSE polished.json.edges]

(***************************************************************************)
(* codeGenerator: the generated text is a sequence of tokens; quotes,      *)
(* braces, brackets, spaces and line ends are tokens of their own.         *)
(***************************************************************************)
Q == "\""
SP == " "
NL == "\n"

\* '  '.repeat(indentLevel)
Indent(indentLevel) == [i \in 1..indentLevel |-> "  "]

\* JavaScript truthiness of a value and of a string field
Truthy(v) ==
  CASE v.tag = "string" -> v.str # <<>>
    [] v.tag = "number" -> v.num # 0
    [] v.tag = "boolean" -> v.num = 1
    [] v.tag \in {"list", "map"} -> TRUE
    [] OTHER -> FALSE

TruthyStr(s) == s # Undefined /\ s # <<>>

\* `${v}` in a template literal
RECURSIVE TemplateText(_), TemplateJoin(_)
TemplateText(v) ==
  CASE v.tag = "string" -> v.str
    [] v.tag = "number" -> <<ToString(v.num)>>
    [] v.tag = "boolean" -> <<IF v.num = 1 THEN "true" ELSE "false">>
    [] v.tag = "null" -> <<"null">>
    [] v.tag = "list" -> TemplateJoin(v.items)
    [] v.tag = "map" -> <<"[object Object]">>
    [] OTHER -> <<"undefined">>

TemplateJoin(items) ==
  IF items = <<>> THEN <<>>
  ELSE IF Len(items) = 1 THEN TemplateText(Head(items))
  ELSE TemplateText(Head(items)) \o <<",">> \o TemplateJoin(Tail(items))

\* Object.entries(value)
Entries(v) == IF v.tag = "map" THEN v.items ELSE <<>>

\* value.match(/^\${.+}$/): `.` does not match a line end
IsWholeReference(s) ==
  /\ Len(s) >= 4
  /\ s[1] = "$" /\ s[2] = "{" /\ s[Len(s)] = "}"
  /\ \A i \in 3..(Len(s) - 1) : s[i] # NL

RECURSIVE formatValue(_), JoinValues(_), JoinEntries(_)
formatValue(value) ==
  CASE value.tag = "null" -> <<"null">>
    [] value.tag = "string" ->
         IF IsWholeReference(value.str)
         THEN SubSeq(value.str, 3, Len(value.str) - 1)
         ELSE <<Q>> \o value.str \o <<Q>>
    [] value.tag = "boolean" -> <<IF value.num = 1 THEN "true" ELSE "false">>
    [] value.tag = "number" -> <<ToString(value.num)>>
    [] value.tag = "list" ->
         IF value.items = <<>> THEN <<"[", "]">>
         ELSE <<"[", NL, "    ">> \o JoinValues(value.items) \o <<NL, "  ", "]">>
    [] value.tag = "map" ->
         <<"{", NL, "    ">> \o JoinEntries(value.items) \o <<NL, "  ", "}">>
    [] OTHER -> <<Q>> \o TemplateText(value) \o <<Q>>

\* value.map(formatValue).join(',\n    ')
JoinValues(items) ==
  IF items = <<>> THEN <<>>
  ELSE IF Len(items) = 1 THEN formatValue(Head(items))
  ELSE formatValue(Head(items)) \o <<",", NL, "    ">> \o JoinValues(Tail(items))

\* Object.entries(value).map(([k, v]) => `${k} = ${formatValue(v)}`).join('\n    ')
JoinEntries(items) ==
  IF items = <<>> THEN <<>>
  ELSE LET first == Head(items).key \o <<SP, "=", SP>> \o formatValue(Head(items).val)
       IN  IF Len(items) = 1 THEN first
           ELSE first \o <<NL, "    ">> \o JoinEntries(Tail(items))

\* value.labels.map(l => `"${l}"`).join(', ')
RECURSIVE JoinLabels(_)
JoinLabels(items) ==
  IF items = <<>> THEN <<>>
  ELSE LET first == <<Q>> \o TemplateText(Head(items)) \o <<Q>>
       IN  IF Len(items) = 1 THEN first
           ELSE first \o <<",", SP>> \o JoinLabels(Tail(items))

\* formatAttribute; BlockLines are the lines of a block or of the content of
\* a dynamic block, `extra` being the indentation added to `indent`
RECURSIVE formatAttribute(_, _, _), BlockLines(_, _, _)
formatAttribute(key, value, indentLevel) ==
  LET indent == Indent(indentLevel)
  IN  IF value.tag = "map"
      THEN IF key = W("dynamic") /\ Truthy(GetKey(value, W("for_each")))
           THEN LET type == GetKey(value, W("type"))
                    labels == GetKey(value, W("labels"))
                    content == GetKey(value, W("content"))
                IN  <<"dynamic", SP, Q>>
                    \o (IF Truthy(type) THEN TemplateText(type) ELSE <<"block">>)
                    \o <<Q, SP, "{", NL>> \o indent
                    \o <<"  ", "for_each", SP, "=", SP>>
                    \o formatValue(GetKey(value, W("for_each")))
                    \o (IF labels.tag = "list"
                        THEN <<NL>> \o indent \o <<"  ", "labels", SP, "=", SP, "[">>
                             \o JoinLabels(labels.items) \o <<"]">>
                        ELSE <<>>)
                    \o (IF Truthy(content)
                        THEN <<NL>> \o indent \o <<"  ", "content", SP, "{", NL>>
                             \o BlockLines(Entries(content), indentLevel, 2)
                             \o indent \o <<"  ", "}">>
                        ELSE <<>>)
                    \o <<NL>> \o indent \o <<"}">>
           ELSE key \o <<SP, "{", NL>>
                \o BlockLines(value.items, indentLevel, 1)
                \o indent \o <<"}">>
      ELSE key \o <<SP, "=", SP>> \o formatValue(value)

BlockLines(items, indentLevel, extra) ==
  IF items = <<>> THEN <<>>
  ELSE Indent(indentLevel) \o Indent(extra)
       \o formatAttribute(Head(items).key, Head(items).val, indentLevel + extra)
       \o <<NL>> \o BlockLines(Tail(items), indentLevel, extra)

\* the result of an emitter: the text, or the error it threw
Emitted(code) == [ok |-> TRUE, code |-> code]
EmitThrown == [ok |-> FALSE, code |-> <<>>]

\* key.startsWith('_')
IsInternalKey(key) == key # <<>> /\ key[1] = "_"

\* the attribute pass: the keys that start with `_` and the keys of `skip`
\* are left out
RECURSIVE AttributeLines(_, _)
AttributeLines(entries, skip) ==
  IF entries = <<>> THEN <<>>
  ELSE (IF IsInternalKey(Head(entries).key) \/ Head(entries).key \in skip
        THEN <<>>
        ELSE <<NL, "  ">> \o formatAttribute(Head(entries).key, Head(entries).val, 1))
       \o AttributeLines(Tail(entries), skip)

RECURSIVE DepLines(_)
DepLines(deps) ==
  IF deps = <<>> THEN <<>>
  ELSE <<"    ">> \o TemplateText(Head(deps)) \o <<",", NL>> \o DepLines(Tail(deps))

\* if (attributes.depends_on && Array.isArray(...) && length > 0)
DependsOnLines(attributes) ==
  LET dep == GetKey(attributes, W("depends_on"))
  IN  IF dep.tag = "list" /\ dep.items # <<>>
      THEN <<NL, "  ", "depends_on", SP, "=", SP, "[", NL>>
           \o DepLines(dep.items) \o <<"  ", "]">>
      ELSE <<>>

\* config || {}
Attributes(node) == IF Truthy(node.config) THEN node.config ELSE VMap(<<>>)

BlockHeader(keyword, labels) ==
  <<keyword, SP>>
  \o (IF Len(labels) = 2
      THEN <<Q>> \o labels[1] \o <<Q, SP, Q>> \o labels[2] \o <<Q>>
      ELSE <<Q>> \o labels[1] \o <<Q>>)
  \o <<SP, "{">>

\* generateResourceCode that skips a malformed node instead of throwing
generateResourceCodeSkips(node) ==
  IF ~TruthyStr(node.resourceType) \/ ~TruthyStr(node.name) THEN Emitted(<<>>)
  ELSE Emitted(BlockHeader("resource", <<node.resourceType, node.name>>)
               \o AttributeLines(Entries(Attributes(node)), {W("depends_on")})
               \o DependsOnLines(Attributes(node))
               \o <<NL, "}">>)

generateResourceCode(node) ==
  IF ~TruthyStr(node.resourceType) \/ ~TruthyStr(node.name) THEN EmitThrown
  ELSE Emitted(BlockHeader("resource", <<node.resourceType, node.name>>)
               \o AttributeLines(Entries(Attributes(node)), {W("depends_on")})
               \o DependsOnLines(Attributes(node))
               \o <<NL, "}">>)

generateDataSourceCode(node) ==
  IF ~TruthyStr(node.resourceType) \/ ~TruthyStr(node.name) THEN EmitThrown
  ELSE Emitted(BlockHeader("data", <<node.resourceType, node.name>>)
               \o AttributeLines(Entries(Attributes(node)), {})
               \o <<NL, "}">>)

generateModuleCode(node) ==
  IF ~TruthyStr(node.name) THEN EmitThrown
  ELSE LET attributes == Attributes(node)
           source == GetKey(attributes, W("source"))
       IN  Emitted(BlockHeader("module", <<node.name>>)
                   \o <<NL, "  ", "source", SP, "=", SP, Q>>
                   \o (IF Truthy(source) THEN TemplateText(source)
                       ELSE <<"./modules/">> \o node.name)
                   \o <<Q>>
                   \o AttributeLines(Entries(attributes),
                                     {W("depends_on"), W("source")})
                   \o DependsOnLines(attributes)
                   \o <<NL, "}">>)

\* attributes.validation.forEach(validation => ...)
RECURSIVE ValidationBlocks(_)
ValidationBlocks(items) ==
  IF items = <<>> THEN <<>>
  ELSE <<NL, "  ", "validation", SP, "{">>
       \o LET Lines[k \in 0..Len(Entries(Head(items)))] ==
                IF k = 0 THEN <<>>
                ELSE Lines[k - 1] \o <<NL, "    ">>
                     \o formatAttribute(Entries(Head(items))[k].key,
                                        Entries(Head(items))[k].val, 2)
          IN  Lines[Len(Entries(Head(items)))]
       \o <<NL, "  ", "}">> \o ValidationBlocks(Tail(items))

generateVariableCode(node) ==
  IF ~TruthyStr(node.name) THEN EmitThrown
  ELSE LET attributes == Attributes(node)
           description == GetKey(attributes, W("description"))
           type == GetKey(attributes, W("type"))
           default == GetKey(attributes, W("default"))
           validation == GetKey(attributes, W("validation"))
       IN  Emitted(BlockHeader("variable", <<node.name>>)
                   \o (IF Truthy(description)
                       THEN <<NL, "  ", "description", SP, "=", SP, Q>>
                            \o TemplateText(description) \o <<Q>>
                       ELSE <<>>)
                   \o (IF Truthy(type)
                       THEN <<NL, "  ", "type", SP, "=", SP>> \o TemplateText(type)
                       ELSE <<>>)
                   \o (IF default # VUndef
                       THEN <<NL, "  ", "default", SP, "=", SP>> \o formatValue(default)
                       ELSE <<>>)
                   \o (IF validation.tag = "list"
                       THEN ValidationBlocks(validation.items) ELSE <<>>)
                   \o <<NL, "}">>)

generateOutputCode(node) ==
  IF ~TruthyStr(node.name) THEN EmitThrown
  ELSE LET attributes == Attributes(node)
           value == GetKey(attributes, W("value"))
           description == GetKey(attributes, W("description"))
           sensitive == GetKey(attributes, W("sensitive"))
       IN  Emitted(BlockHeader("output", <<node.name>>)
                   \o <<NL, "  ", "value", SP, "=", SP>>
                   \o (IF value # VUndef THEN formatValue(value) ELSE <<"null">>)
                   \o (IF Truthy(description)
                       THEN <<NL, "  ", "description", SP, "=", SP, Q>>
                            \o TemplateText(description) \o <<Q>>
                       ELSE <<>>)
                   \o (IF sensitive # VUndef
                       THEN <<NL, "  ", "sensitive", SP, "=", SP>>
                            \o TemplateText(sensitive)
                       ELSE <<>>)
                   \o DependsOnLines(attributes)
                   \o <<NL, "}">>)

\* generateTerraformBlock()
TerraformBlock ==
  <<"terraform", SP, "{", NL,
    "  ", "required_version", SP, "=", SP, Q, ">= 1.0.0", Q, NL, NL,
    "  ", "required_providers", SP, "{", NL,
    "    ", "google", SP, "=", SP, "{", NL,
    "      ", "source", "  ", "=", SP, Q, "hashicorp/google", Q, NL,
    "      ", "version", SP, "=", SP, Q, ">= 4.0.0", Q, NL,
    "    ", "}", NL,
    "  ", "}", NL,
    "}">>

\* the emitter of a node's kind
generateNodeCode(node) ==
  CASE node.type = W("resource") -> generateResourceCode(node)
    [] node.type = W("data") -> generateDataSourceCode(node)
    [] node.type = W("module") -> generateModuleCode(node)
    [] node.type = W("variable") -> generateVariableCode(node)
    [] OTHER -> generateOutputCode(node)

\* nodes.filter(node => node.type === type).forEach(node => { result[file] +=
\* generate...(node); result[file] += '\n\n' })
RECURSIVE EmitNodes(_, _)
EmitNodes(nodes, type) ==
  IF nodes = <<>> THEN Emitted(<<>>)
  ELSE IF Head(nodes).type # type THEN EmitNodes(Tail(nodes), type)
  ELSE LET first == generateNodeCode(Head(nodes))
           rest == EmitNodes(Tail(nodes), type)
       IN  IF first.ok /\ rest.ok
           THEN Emitted(first.code \o <<NL, NL>> \o rest.code)
           ELSE EmitThrown

\* the file mapping: a file that is absent has no text
Files(main, variables, outputs) ==
  [main |-> main, variables |-> variables, outputs |-> outputs]

Generated(files) == [ok |-> TRUE, files |-> files]
GenerateThrown == [ok |-> FALSE, files |-> Files(<<>>, <<>>, <<>>)]

generateFromDiagram(diagramData) ==
  IF ~IsArrays(diagramData) THEN GenerateThrown
  ELSE LET resources == EmitNodes(diagramData.nodes, W("resource"))
           datas == EmitNodes(diagramData.nodes, W("data"))
           modules == EmitNodes(diagramData.nodes, W("module"))
           variables == EmitNodes(diagramData.nodes, W("variable"))
           outputs == EmitNodes(diagramData.nodes, W("output"))
       IN  IF resources.ok /\ datas.ok /\ modules.ok /\ variables.ok /\ outputs.ok
           THEN Generated(Files(TerraformBlock \o <<NL, NL>> \o resources.code
                                  \o datas.code \o modules.code,
                                variables.code, outputs.code))
           ELSE GenerateThrown

(***************************************************************************)
(* utils/validator validateDiagramData and the controller of the code      *)
(* generator.  A joi object schema rejects the keys it does not list, so   *)
(* a node that carries name, resourceType or config does not pass.         *)
(***************************************************************************)
validateDiagramData(diagramData) ==
  /\ IsArrays(diagramData)
  /\ \A i \in DOMAIN diagramData.nodes :
       LET node == diagramData.nodes[i]
       IN  /\ JoiRequiredString(node.id)
           /\ JoiRequiredString(node.type)
           /\ JoiRequiredString(node.label)
           /\ node.name = Undefined
           /\ node.resourceType = Undefined
           /\ node.config = VUndef
           /\ node.icon = Undefined
  /\ \A k \in DOMAIN diagramData.edges :
       LET edge == diagramData.edges[k]
       IN  /\ JoiString(edge.id)
           /\ JoiRequiredString(edge.sourceId)
           /\ JoiRequiredString(edge.targetId)
           /\ JoiString(edge.label)
           /\ edge.type = Undefined
           /\ edge.verb = Undefined

\* codeGeneratorController.generateCode: 400 without a file mapping when the
\* validation fails, else the mapping of generateFromDiagram
ctlGenerateCode(diagramData) ==
  IF ~validateDiagramData(diagramData) THEN GenerateThrown
  ELSE generateFromDiagram(diagramData)

(***************************************************************************)
(* utils/validator validateTerraformCode: the text is not blank, no prefix *)
(* of it closes more braces than it opens, it closes every brace, and it   *)
(* holds one of the common block types followed by ` "`.                   *)
(***************************************************************************)
\* braceCount after the first n characters
BraceCount(code, n) ==
  Cardinality({i \in 1..n : code[i] = "{"})
  - Cardinality({i \in 1..n : code[i] = "}"})

CommonBlockTypes == {"resource", "provider", "variable", "module", "data", "output"}

validateTerraformCode(code) ==
  /\ \E i \in DOMAIN code : code[i] \notin {SP, NL, "  ", "    ", "      "}
  /\ \A n \in DOMAIN code : BraceCount(code, n) >= 0
  /\ BraceCount(code, Len(code)) = 0
  /\ \E i \in 1..(Len(code) - 2) :
       code[i] \in CommonBlockTypes /\ code[i + 1] = SP /\ code[i + 2] = Q

(***************************************************************************)
(* terraformParser.parseString: the block structure that the parser reads  *)
(* from configuration text.  A file is a sequence of blocks                *)
(*   keyword "label" ... { body }                                          *)
(* A body ends at the brace that closes it; braces inside a quoted string  *)
(* do not count, a backslash inside a string escapes the next character,   *)
(* and a string ends on its line.  The attributes of a body are not read   *)
(* back: the parsed block has an empty configuration.                      *)
(***************************************************************************)
WhiteSpace == {SP, NL, "  ", "    ", "      "}
BlockKeywords == {"terraform", "resource", "data", "module", "variable", "output"}

LabelCount(keyword) ==
  CASE keyword \in {"resource", "data"} -> 2
    [] keyword = "terraform" -> 0
    [] OTHER -> 1

\* the first position from i on that holds no white space (past the end
\* when there is none)
SkipWhiteSpace(code, i) ==
  LET stops == {j \in i..Len(code) : code[j] \notin WhiteSpace}
                 \cup {IF i > Len(code) THEN i ELSE Len(code) + 1}
  IN  CHOOSE j \in stops : \A k \in stops : j <= k

\* the quoted labels from position i on; `next` is the position after them
RECURSIVE ReadLabels(_, _)
ReadLabels(code, i) ==
  LET j == SkipWhiteSpace(code, i)
  IN  IF j > Len(code) \/ code[j] # Q
      THEN [ok |-> TRUE, labels |-> <<>>, next |-> j]
      ELSE LET closing == {k \in (j + 1)..Len(code) : code[k] = Q}
           IN  IF closing = {}
               THEN [ok |-> FALSE, labels |-> <<>>, next |-> j]
               ELSE LET k == CHOOSE c \in closing : \A o \in closing : c <= o
                        rest == ReadLabels(code, k + 1)
                    IN  [ok |-> rest.ok,
                         labels |-> <<SubSeq(code, j + 1, k - 1)>> \o rest.labels,
                         next |-> rest.next]

\* the scanner of a body: the brace depth, whether it is inside a string,
\* whether the last character was an escaping backslash, the position of the
\* closing brace once found, and whether a string was cut by a line end
ScanStart ==
  [depth |-> 1, inString |-> FALSE, escaped |-> FALSE, end |-> 0, failed |-> FALSE]

ScanStep(st, code, i) ==
  IF st.end # 0 \/ st.failed THEN st
  ELSE IF st.escaped THEN [st EXCEPT !.escaped = FALSE]
  ELSE IF st.inString
  THEN CASE code[i] = "\\" -> [st EXCEPT !.escaped = TRUE]
         [] code[i] = Q -> [st EXCEPT !.inString = FALSE]
         [] code[i] = NL -> [st EXCEPT !.failed = TRUE]
         [] OTHER -> st
  ELSE CASE code[i] = Q -> [st EXCEPT !.inString = TRUE]
         [] code[i] = "{" -> [st EXCEPT !.depth = st.depth + 1]
         [] code[i] = "}" ->
              IF st.depth = 1 THEN [st EXCEPT !.end = i]
              ELSE [st EXCEPT !.depth = st.depth - 1]
         [] OTHER -> st

\* the scanner run over the positions lo..hi, left to right
RECURSIVE Scan(_, _, _, _)
Scan(st, code, lo, hi) ==
  IF lo > hi THEN st
  ELSE IF lo = hi THEN ScanStep(st, code, lo)
  ELSE LET mid == (lo + hi) \div 2
           left == Scan(st, code, lo, mid)
       IN  IF left.end # 0 \/ left.failed THEN left
           ELSE Scan(left, code, mid + 1, hi)

\* the position of the brace that closes the body entered before position i,
\* or 0 when the text ends or a string is cut by a line end before it
BodyEnd(code, i) ==
  LET st == Scan(ScanStart, code, i, Len(code))
  IN  IF st.failed THEN 0 ELSE st.end

ParsedBlocks(blocks) == [ok |-> TRUE, blocks |-> blocks]
ParseError == [ok |-> FALSE, blocks |-> <<>>]

RECURSIVE ParseBlocks(_, _)
ParseBlocks(code, i) ==
  LET j == SkipWhiteSpace(code, i)
  IN  IF j > Len(code) THEN ParsedBlocks(<<>>)
      ELSE IF code[j] \notin BlockKeywords THEN ParseError
      ELSE LET read == ReadLabels(code, j + 1)
               open == read.next
           IN  IF ~read.ok \/ open > Len(code) \/ code[open] # "{"
                  \/ Len(read.labels) # LabelCount(code[j])
               THEN ParseError
               ELSE LET close == BodyEnd(code, open + 1)
                    IN  IF close = 0 THEN ParseError
                        ELSE LET rest == ParseBlocks(code, close + 1)
                             IN  IF ~rest.ok THEN ParseError
                                 ELSE ParsedBlocks(
                                        <<[keyword |-> code[j],
                                           labels |-> read.labels]>>
                                        \o rest.blocks)

\* the blocks of one keyword as the block map of that keyword
BlockMap(blocks, keyword) ==
  LET kept == SelectSeq(blocks, LAMBDA b : b.keyword = keyword)
  IN  [i \in DOMAIN kept |->
         IF Len(kept[i].labels) = 2
         THEN Block(kept[i].labels[1], kept[i].labels[2], VMap(<<>>))
         ELSE Block(<<>>, kept[i].labels[1], VMap(<<>>))]

parseString(code) ==
  LET parsed == ParseBlocks(code, 1)
  IN  [success |-> parsed.ok,
       data |-> [resource |-> BlockMap(parsed.blocks, "resource"),
                 module |-> BlockMap(parsed.blocks, "module"),
                 data |-> BlockMap(parsed.blocks, "data"),
                 variable |-> BlockMap(parsed.blocks, "variable"),
                 output |-> BlockMap(parsed.blocks, "output")]]

(***************************************************************************)
(* Request inputs                                                          *)
(***************************************************************************)
RefTo(id) == <<"$", "{">> \o id \o <<"}">>

IdA == <<"resource", ".", "t", ".", "a">>
IdB == <<"resource", ".", "t", ".", "b">>
IdM == <<"module", ".", "m">>
IdN == W("n1")
IdGhost == W("ghost")

NoConfig == VMap(<<>>)
DependsOn(ids) == KV(W("depends_on"), VList([i \in DOMAIN ids |-> VStr(ids[i])]))

ParsedData(res, mod, dat, var, out) ==
  [resource |-> res, module |-> mod, data |-> dat, variable |-> var,
   output |-> out]

\* two resources and a module: a -> b, a -> m, b -> m
ParsedChain ==
  ParsedData(
    <<Block(W("t"), W("a"), NoConfig),
      Block(W("t"), W("b"), VMap(<<KV(W("peer"), VStr(RefTo(IdA)))>>))>>,
    <<Block(<<>>, W("m"), VMap(<<DependsOn(<<IdA, IdB>>)>>))>>,
    <<>>, <<>>, <<>>)

\* one resource, no edge
ParsedSingle ==
  ParsedData(<<Block(W("t"), W("a"), NoConfig)>>, <<>>, <<>>, <<>>, <<>>)

StoreInputs == {ParsedChain, ParsedSingle}

NodeData(id, type, label, name, resourceType, x, y) ==
  [id |-> id, type |-> type, label |-> label, name |-> name,
   resourceType |-> resourceType, config |-> VUndef,
   x |-> x, y |-> y, width |-> UndefNum, height |-> UndefNum,
   icon |-> Undefined]

\* bodies of POST /:diagramId/nodes
NodePayloads ==
  { NodeData(IdN, W("resource"), W("t.n1"), W("n1"), W("t"), UndefNum, UndefNum),
    NodeData(IdA, W("resource"), W("again"), W("a"), W("t"), UndefNum, UndefNum),
    NodeData(Undefined, W("resource"), W("t.c"), W("c"), W("t"), UndefNum, UndefNum),
    NodeData(Undefined, W("resource"), W("t.d"), W("d"), W("t"), UndefNum, UndefNum),
    NodeData(IdN, Undefined, W("t.n1"), W("n1"), W("t"), UndefNum, UndefNum),
    NodeData(IdN, W("gadget"), W("t.n1"), W("n1"), W("t"), UndefNum, UndefNum) }

\* bodies of PUT /:diagramId/nodes/:id; coordinates are in half pixels
NodePatches ==
  { NodeData(Undefined, W("resource"), W("renamed"), Undefined, Undefined,
             UndefNum, UndefNum),
    NodeData(Undefined, W("resource"), W("moved"), Undefined, Undefined, 10, 7),
    NodeData(Undefined, W("resource"), W("moved"), Undefined, Undefined, 10,
             UndefNum),
    NodeData(Undefined, Undefined, Undefined, Undefined, Undefined, 10, 7),
    NodeData(IdGhost, W("resource"), W("renamed"), Undefined, Undefined,
             UndefNum, UndefNum) }

UpdateNodeIds == {IdA, IdN, IdGhost}
DeleteNodeIds == {IdA, IdB, IdN, IdGhost}

ConnectionData(sourceId, targetId, label, type) ==
  [id |-> Undefined, sourceId |-> sourceId, targetId |-> targetId,
   type |-> type, label |-> label, verb |-> Undefined]

ConnEnds == {IdA, IdM, IdGhost}

\* bodies of POST /:diagramId/connections
ConnPayloads ==
  { ConnectionData(s, t, W("uses"), Undefined) : s \in ConnEnds, t \in ConnEnds }
  \cup { ConnectionData(IdA, Undefined, W("uses"), Undefined),
         ConnectionData(IdM, IdA, Undefined, W("reference")) }

\* bodies of PUT /:diagramId/connections/:id
ConnPatches ==
  { ConnectionData(IdA, IdM, W("feeds"), W("reference")),
    ConnectionData(IdM, IdGhost, W("feeds"), Undefined),
    ConnectionData(IdA, Undefined, W("feeds"), Undefined) }

ConnectionIds ==
  { IdA \o Colon \o IdB, IdA \o Colon \o IdM, IdM \o Colon \o IdA,
    IdA \o Colon \o IdA, IdA }

LayoutBodies ==
  { NoOptions, LayoutOptions("TB", 50, UndefNum, UndefNum, UndefNum) }

\* uuidv4() draws from this pool; an id that is never issued stands for
\* requests that name an unknown diagram
DiagramPool == {"d" \o ToString(i) : i \in 1..MaxDiagrams}
UnknownDiagram == "d0"
RequestDiagrams == DiagramPool \cup {UnknownDiagram}

(***************************************************************************)
(* diagramController: the store `diagrams` (a Map keyed by diagram id) and *)
(* the request handlers.  A handler is a function of the store and the     *)
(* request that yields the store after the request, the HTTP status and    *)
(* whether the layout engine ran.                                          *)
(***************************************************************************)
NoStored ==
  [id |-> "", nodes |-> <<>>, edges |-> <<>>, width |-> UndefNum,
   height |-> UndefNum]

\* { id: diagramId, ...updatedDiagram }
WithId(diagramId, data) ==
  [id |-> diagramId, nodes |-> data.nodes, edges |-> data.edges,
   width |-> data.width, height |-> data.height]

\* diagrams.get(diagramId)
MapHas(store, diagramId) == diagramId \in DOMAIN store
MapGet(store, diagramId) ==
  IF MapHas(store, diagramId) THEN store[diagramId] ELSE NoStored

\* a store that keeps one diagram only
MapSetSingle(store, diagramId, value) == [k \in {diagramId} |-> value]

\* diagrams.set(diagramId, value)
MapSet(store, diagramId, value) ==
  [k \in DOMAIN store \cup {diagramId} |->
     IF k = diagramId THEN value ELSE store[k]]

Outcome(store, status, err, ran) ==
  [diagrams |-> store, status |-> status, err |-> err, ranLayout |-> ran]

\* const stored = { id, ...updated }; diagrams.set(id, stored); res.json(...)
\* or, when the service threw, next(error): status 500
Finish(store, diagramId, r) ==
  IF r.ok
  THEN Outcome(MapSet(store, diagramId, WithId(diagramId, r.data)), 200,
               "none", r.ranLayout)
  ELSE Outcome(store, 500, r.err, FALSE)

\* generateDiagram without the try/catch around the enhancement step
ctlGenerateDiagramNoCatch(store, given, parsedData, diagramId, reply) ==
  IF ~given THEN Outcome(store, 400, "NoParsedData", FALSE)
  ELSE LET diagramData == generateFromTerraform(parsedData)
           diagramWithId == WithId(diagramId, diagramData)
           polished == polishDiagram(diagramWithId, reply)
           final == IF polished.polished
                    THEN MergePolished(diagramWithId, polished)
                    ELSE diagramWithId
       IN  IF polished.threw THEN Outcome(store, 500, "EnhancerError", FALSE)
           ELSE Outcome(MapSet(store, diagramId, final), 200, "none", TRUE)

\* a rejected polishDiagram is caught and logged
ctlGenerateDiagram(store, given, parsedData, diagramId, reply) ==
  IF ~given THEN Outcome(store, 400, "NoParsedData", FALSE)
  ELSE LET diagramData == generateFromTerraform(parsedData)
           diagramWithId == WithId(diagramId, diagramData)
           polished == polishDiagram(diagramWithId, reply)
           final == IF ~polished.threw /\ polished.polished
                    THEN MergePolished(diagramWithId, polished)
                    ELSE diagramWithId
       IN  Outcome(MapSet(store, diagramId, final), 200, "none", TRUE)

ctlUpdateLayout(store, diagramId, layoutOptions) ==
  IF ~MapHas(store, diagramId) THEN Outcome(store, 404, "DiagramNotFound", FALSE)
  ELSE Finish(store, diagramId,
              updateLayout(MapGet(store, diagramId), layoutOptions))

\* ctlAddNode whose validation branch responds 400 and goes on
ctlAddNodeNoReturn(store, diagramId, nodeData) ==
  IF ~MapHas(store, diagramId)
  THEN Outcome(store, 400, "DiagramNotFound", FALSE)
  ELSE LET r == addNode(MapGet(store, diagramId), nodeData)
           out == Finish(store, diagramId, r)
       IN  IF ~validateNodeData(nodeData)
           THEN Outcome(out.diagrams, 400, "InvalidNodeData", FALSE)
           ELSE out

ctlAddNode(store, diagramId, nodeData) ==
  IF ~MapHas(store, diagramId)
  THEN Outcome(store, 400, "DiagramNotFound", FALSE)
  ELSE IF ~validateNodeData(nodeData)
       THEN Outcome(store, 400, "InvalidNodeData", FALSE)
  ELSE Finish(store, diagramId, addNode(MapGet(store, diagramId), nodeData))

ctlUpdateNode(store, diagramId, id, nodeData) ==
  IF ~MapHas(store, diagramId)
  THEN Outcome(store, 400, "DiagramNotFound", FALSE)
  ELSE IF ~validateNodeData(nodeData)
       THEN Outcome(store, 400, "InvalidNodeData", FALSE)
  ELSE Finish(store, diagramId,
              updateNode(MapGet(store, diagramId), id, nodeData))

ctlDeleteNode(store, diagramId, id) ==
  IF ~MapHas(store, diagramId)
  THEN Outcome(store, 400, "DiagramNotFound", FALSE)
  ELSE Finish(store, diagramId, deleteNode(MapGet(store, diagramId), id))

ctlAddConnection(store, diagramId, connectionData) ==
  IF ~MapHas(store, diagramId)
  THEN Outcome(store, 400, "DiagramNotFound", FALSE)
  ELSE IF ~validateConnectionData(connectionData)
       THEN Outcome(store, 400, "InvalidConnectionData", FALSE)
  ELSE Finish(store, diagramId,
              addConnection(MapGet(store, diagramId), connectionData))

ctlUpdateConnection(store, diagramId, id, connectionData) ==
  IF ~MapHas(store, diagramId)
  THEN Outcome(store, 400, "DiagramNotFound", FALSE)
  ELSE IF ~validateConnectionData(connectionData)
       THEN Outcome(store, 400, "InvalidConnectionData", FALSE)
  ELSE Finish(store, diagramId,
              updateConnection(MapGet(store, diagramId), id, connectionData))

ctlDeleteConnection(store, diagramId, id) ==
  IF ~MapHas(store, diagramId)
  THEN Outcome(store, 400, "DiagramNotFound", FALSE)
  ELSE Finish(store, diagramId, deleteConnection(MapGet(store, diagramId), id))

\* enhanceDiagram that reads the store again after the enhancer replied
enhanceAfterAwaitRereads(store, diagramId, diagramData, reply) ==
  LET polished == polishDiagram(MapGet(store, diagramId), reply)
  IN  IF polished.threw THEN Outcome(store, 500, "EnhancerError", FALSE)
      ELSE IF polished.polished
      THEN Outcome(MapSet(store, diagramId,
                          MergePolished(MapGet(store, diagramId), polished)),
                   200, "none", FALSE)
      ELSE Outcome(store, 500, "FailedToEnhance", FALSE)

\* enhanceDiagram from `await polishDiagram(diagramData)` on: diagramData is
\* the snapshot read before the await, store is the store when the reply
\* arrives.  A rejected polishDiagram goes to next(err).
enhanceAfterAwait(store, diagramId, diagramData, reply) ==
  LET polished == polishDiagram(diagramData, reply)
  IN  IF polished.threw THEN Outcome(store, 500, "EnhancerError", FALSE)
      ELSE IF polished.polished
      THEN Outcome(MapSet(store, diagramId,
                          MergePolished(diagramData, polished)),
                   200, "none", FALSE)
      ELSE Outcome(store, 500, "FailedToEnhance", FALSE)

\* enhanceDiagram served without another request in between
ctlEnhanceDiagram(store, diagramId, reply) ==
  IF ~MapHas(store, diagramId) THEN Outcome(store, 404, "DiagramNotFound", FALSE)
  ELSE enhanceAfterAwait(store, diagramId, MapGet(store, diagramId), reply)

(***************************************************************************)
(* The last request and its response, kept for stating the properties:     *)
(* `before` is the snapshot the handler read from the store.               *)
(***************************************************************************)
NoNode == NodeData(Undefined, Undefined, Undefined, Undefined, Undefined,
                   UndefNum, UndefNum)
NoConn == ConnectionData(Undefined, Undefined, Undefined, Undefined)

Request(op, diagramId, id, node, conn, opts) ==
  [op |-> op, diagramId |-> diagramId, id |-> id, node |-> node,
   conn |-> conn, opts |-> opts, reply |-> WithoutKey]

NoRequest == Request("none", "", <<>>, NoNode, NoConn, NoOptions)

Response(req, out, before) ==
  [req |-> req, status |-> out.status, err |-> out.err,
   ranLayout |-> out.ranLayout, before |-> before]

NoResponse ==
  [req |-> NoRequest, status |-> 0, err |-> "none", ranLayout |-> FALSE,
   before |-> NoStored]

NoParsed == ParsedData(<<>>, <<>>, <<>>, <<>>, <<>>)
NoBuilt == [done |-> FALSE, data |-> NoData]
\* a run of the code generator: its input, the text of every node, the file
\* mapping, and the diagram rebuilt from the files
Gen(pc, value, text, diagram, codes, result, rebuilt) ==
  [pc |-> pc, value |-> value, text |-> text, diagram |-> diagram,
   codes |-> codes, result |-> result, rebuilt |-> rebuilt, valid |-> FALSE]
NoGen == Gen("off", VUndef, <<>>, NoData, <<>>, GenerateThrown, NoData)

\* two runs of updateLayout in a row: the options, the diagram they start
\* from and the result of each run
Lay(pc, opts, input, first, second) ==
  [pc |-> pc, opts |-> opts, input |-> input, first |-> first, second |-> second]
NoLay == Lay("off", NoOptions, NoData, Thrown("none"), Thrown("none"))

\* an enhanceDiagram request that awaits the enhancer's reply
Pending(pc, diagramId, diagramData) ==
  [pc |-> pc, diagramId |-> diagramId, diagramData |-> diagramData]
NoInflight == <<>>
NoAlg == [pc |-> "off", graph |-> NoData, node |-> NoNode, added |-> NoData,
          result |-> Thrown("none")]

Init ==
  /\ openai = FALSE
  /\ inflight = NoInflight
  /\ gen = NoGen
  /\ lay = NoLay
  /\ diagrams = [k \in {} |-> NoStored]
  /\ resp = NoResponse
  /\ nops = 0
  /\ parsedIn = NoParsed
  /\ built = NoBuilt
  /\ alg = NoAlg

\* one request served from start to end
Serve(req, out) ==
  /\ nops < MaxOps
  /\ nops' = nops + 1
  /\ diagrams' = out.diagrams
  /\ resp' = Response(req, out, MapGet(diagrams, req.diagramId))
  /\ UNCHANGED <<parsedIn, built, alg, openai, inflight, gen, lay>>

\* requests that name an unknown diagram are tried with one body only
Known(diagramId, body, bodies) ==
  diagramId = UnknownDiagram => body = CHOOSE b \in bodies : TRUE

GenerateDiagram(given, parsedData, diagramId, reply) ==
  /\ diagramId \notin DOMAIN diagrams
  /\ Serve([Request("generateDiagram", diagramId, <<>>, NoNode, NoConn,
                    NoOptions) EXCEPT !.reply = reply],
           ctlGenerateDiagram(diagrams, given, parsedData, diagramId, reply))

UpdateLayout(diagramId, layoutOptions) ==
  /\ Known(diagramId, layoutOptions, LayoutBodies)
  /\ Serve(Request("updateLayout", diagramId, <<>>, NoNode, NoConn, layoutOptions),
           ctlUpdateLayout(diagrams, diagramId, layoutOptions))

AddNode(diagramId, nodeData) ==
  /\ Known(diagramId, nodeData, NodePayloads)
  /\ Serve(Request("addNode", diagramId, <<>>, nodeData, NoConn, NoOptions),
           ctlAddNode(diagrams, diagramId, nodeData))

UpdateNode(diagramId, id, nodeData) ==
  /\ Known(diagramId, <<id, nodeData>>, UpdateNodeIds \X NodePatches)
  /\ Serve(Request("updateNode", diagramId, id, nodeData, NoConn, NoOptions),
           ctlUpdateNode(diagrams, diagramId, id, nodeData))

DeleteNode(diagramId, id) ==
  /\ Known(diagramId, id, DeleteNodeIds)
  /\ Serve(Request("deleteNode", diagramId, id, NoNode, NoConn, NoOptions),
           ctlDeleteNode(diagrams, diagramId, id))

AddConnection(diagramId, connectionData) ==
  /\ Known(diagramId, connectionData, ConnPayloads)
  /\ Serve(Request("addConnection", diagramId, <<>>, NoNode, connectionData,
                   NoOptions),
           ctlAddConnection(diagrams, diagramId, connectionData))

UpdateConnection(diagramId, id, connectionData) ==
  /\ Known(diagramId, <<id, connectionData>>, ConnectionIds \X ConnPatches)
  /\ Serve(Request("updateConnection", diagramId, id, NoNode, connectionData,
                   NoOptions),
           ctlUpdateConnection(diagrams, diagramId, id, connectionData))

DeleteConnection(diagramId, id) ==
  /\ Known(diagramId, id, ConnectionIds)
  /\ Serve(Request("deleteConnection", diagramId, id, NoNode, NoConn, NoOptions),
           ctlDeleteConnection(diagrams, diagramId, id))

EnhanceDiagram(diagramId, reply) ==
  Serve([Request("enhanceDiagram", diagramId, <<>>, NoNode, NoConn, NoOptions)
           EXCEPT !.reply = reply],
        ctlEnhanceDiagram(diagrams, diagramId, reply))

\* the server run without OPENAI_API_KEY (openai stays undefined)
Next ==
  \/ \E given \in BOOLEAN, p \in StoreInputs, d \in DiagramPool :
       (~given => p = ParsedSingle) /\ GenerateDiagram(given, p, d, WithoutKey)
  \/ \E d \in RequestDiagrams : EnhanceDiagram(d, WithoutKey)
  \/ \E d \in RequestDiagrams, o \in LayoutBodies : UpdateLayout(d, o)
  \/ \E d \in RequestDiagrams, n \in NodePayloads : AddNode(d, n)
  \/ \E d \in RequestDiagrams, i \in UpdateNodeIds, n \in NodePatches :
       UpdateNode(d, i, n)
  \/ \E d \in RequestDiagrams, i \in DeleteNodeIds : DeleteNode(d, i)
  \/ \E d \in RequestDiagrams, c \in ConnPayloads : AddConnection(d, c)
  \/ \E d \in RequestDiagrams, i \in ConnectionIds, c \in ConnPatches :
       UpdateConnection(d, i, c)
  \/ \E d \in RequestDiagrams, i \in ConnectionIds : DeleteConnection(d, i)

Spec == Init /\ [][Next]_vars

(***************************************************************************)
(* The server run with OPENAI_API_KEY: every call of polishDiagram gets    *)
(* one of the replies below.  Diagram ids are issued in the pool's order.  *)
(***************************************************************************)
MaxEnhDiagrams == 2

EnhId(i) == "e" \o ToString(i)
EnhPool == {EnhId(i) : i \in 1..MaxEnhDiagrams}

EdgeAB == IdA \o Colon \o IdB

EnhReplies ==
  { Reply("rejects", NoJson),
    Reply("unparsable", NoJson),
    Reply("json", NoJson),
    Reply("json", Json(FALSE, "", "array",
            <<NodeEnhancement(IdGhost, W("Ghost"), W("gcp/note")),
              NodeEnhancement(IdB, W("Beta"), W("gcp/vpc")),
              NodeEnhancement(IdA, <<>>, Undefined)>>,
            "array",
            <<EdgeEnhancement(EdgeAB, W("configures")),
              EdgeEnhancement(IdGhost \o Colon \o IdA, W("stores in"))>>)),
    Reply("json", Json(FALSE, "", "array", <<>>, "absent", <<>>)),
    Reply("json", Json(FALSE, "", "other", <<>>, "absent", <<>>)),
    Reply("json", Json(FALSE, "", "absent", <<>>, "other", <<>>)),
    Reply("json", Json(TRUE, "e0", "absent", <<>>, "absent", <<>>)) }

EnhPayloads ==
  { NodeData(IdN, W("resource"), W("t.n1"), W("n1"), W("t"), UndefNum, UndefNum),
    NodeData(IdN, Undefined, W("t.n1"), W("n1"), W("t"), UndefNum, UndefNum) }

EnhRequestDiagrams == EnhPool \cup {UnknownDiagram}

InitEnh ==
  /\ openai \in BOOLEAN
  /\ inflight = NoInflight
  /\ gen = NoGen
  /\ lay = NoLay
  /\ diagrams = [k \in {} |-> NoStored]
  /\ resp = NoResponse
  /\ nops = 0
  /\ parsedIn = NoParsed
  /\ built = NoBuilt
  /\ alg = NoAlg

\* if (!openai) return { polished: false }
RepliesNow == IF openai THEN EnhReplies ELSE {WithoutKey}

NextEnh ==
  \/ \E i \in 1..MaxEnhDiagrams, r \in RepliesNow :
       /\ \A j \in 1..(i - 1) : EnhId(j) \in DOMAIN diagrams
       /\ GenerateDiagram(TRUE, ParsedChain, EnhId(i), r)
  \/ \E d \in EnhRequestDiagrams, r \in RepliesNow : EnhanceDiagram(d, r)
  \/ \E d \in EnhRequestDiagrams, n \in EnhPayloads : AddNode(d, n)
  \/ \E d \in EnhRequestDiagrams, i \in {IdA, IdGhost} : DeleteNode(d, i)
  \/ \E d \in EnhRequestDiagrams : UpdateLayout(d, NoOptions)

SpecEnh == InitEnh /\ [][NextEnh]_vars

(***************************************************************************)
(* Requests in flight.  A handler runs to its first await that waits for   *)
(* I/O before another request is dispatched: the services of               *)
(* diagramGenerator are async functions without I/O, so a mutation handler *)
(* resumes from its await before any other handler starts; enhanceDiagram  *)
(* awaits the enhancer's reply over the network, and other requests are    *)
(* served between its diagrams.get and its diagrams.set.                   *)
(***************************************************************************)
MaxInflight == 2

RaceInit ==
  /\ openai = TRUE
  /\ inflight = [s \in 1..MaxInflight |-> Pending("idle", "", NoStored)]
  /\ gen = NoGen
  /\ lay = NoLay
  /\ diagrams = [k \in {} |-> NoStored]
  /\ resp = NoResponse
  /\ nops = 0
  /\ parsedIn = NoParsed
  /\ built = NoBuilt
  /\ alg = NoAlg

\* diagrams.get(diagramId), then polishDiagram up to its await
EnhanceBegin(s, diagramId) ==
  /\ inflight[s].pc = "idle"
  /\ \A t \in 1..(s - 1) : inflight[t].pc # "idle"
  /\ MapHas(diagrams, diagramId)
  /\ IsArrays(MapGet(diagrams, diagramId))
  /\ nops < MaxOps
  /\ nops' = nops + 1
  /\ inflight' = [inflight EXCEPT
                    ![s] = Pending("awaiting", diagramId,
                                   MapGet(diagrams, diagramId))]
  /\ UNCHANGED <<diagrams, resp, parsedIn, built, alg, openai, gen, lay>>

\* the reply arrives: the rest of polishDiagram, the merge and diagrams.set
EnhanceEnd(s, reply) ==
  /\ inflight[s].pc = "awaiting"
  /\ LET req == [Request("enhanceDiagram", inflight[s].diagramId, <<>>, NoNode,
                         NoConn, NoOptions) EXCEPT !.reply = reply]
         out == enhanceAfterAwait(diagrams, inflight[s].diagramId,
                                  inflight[s].diagramData, reply)
     IN  /\ diagrams' = out.diagrams
         /\ resp' = Response(req, out, MapGet(diagrams, req.diagramId))
  /\ inflight' = [inflight EXCEPT ![s].pc = "done"]
  /\ UNCHANGED <<nops, parsedIn, built, alg, openai, gen, lay>>

RaceNext ==
  \/ \E i \in 1..MaxEnhDiagrams :
       /\ \A j \in 1..(i - 1) : EnhId(j) \in DOMAIN diagrams
       /\ GenerateDiagram(TRUE, ParsedChain, EnhId(i), Reply("json", NoJson))
  \/ \E s \in 1..MaxInflight, d \in EnhPool : EnhanceBegin(s, d)
  \/ \E s \in 1..MaxInflight, r \in EnhReplies : EnhanceEnd(s, r)
  \/ \E d \in EnhRequestDiagrams, n \in EnhPayloads : AddNode(d, n)
  \/ \E d \in EnhRequestDiagrams, i \in {IdA, IdGhost} : DeleteNode(d, i)
  \/ \E d \in EnhRequestDiagrams : UpdateLayout(d, NoOptions)

SpecRace == RaceInit /\ [][RaceNext]_vars

(***************************************************************************)
(* The graph builder on its own: generateFromTerraform applied to parsed   *)
(* configurations of one anchor resource `resource.t.a`, one subject block *)
(* `s` of any kind and, optionally, a variable `v`.                        *)
(***************************************************************************)
IdMissing == <<"resource", ".", "t", ".", "zz">>
IdV == <<"var", ".", "v">>

SubjectConfigs ==
  { NoConfig,
    VMap(<<DependsOn(<<IdA>>)>>),
    VMap(<<DependsOn(<<IdA, IdMissing>>)>>),
    VMap(<<DependsOn(<<IdMissing>>)>>),
    VMap(<<DependsOn(<<IdV>>)>>),
    VMap(<<KV(W("depends_on"), VStr(IdA))>>),
    VMap(<<DependsOn(<<IdA>>), KV(W("peer"), VStr(RefTo(IdA)))>>),
    VMap(<<KV(W("peer"), VStr(RefTo(IdA)))>>),
    VMap(<<KV(W("peer"), VStr(RefTo(IdA) \o W("-") \o RefTo(IdA)))>>),
    VMap(<<KV(W("peer"), VStr(RefTo(IdA))), KV(W("other"), VStr(RefTo(IdA)))>>),
    VMap(<<KV(W("nested"), VMap(<<KV(W("inner"), VStr(RefTo(IdA)))>>))>>),
    VMap(<<KV(W("items"), VList(<<VStr(RefTo(IdA))>>))>>),
    VMap(<<KV(W("size"), VStr(RefTo(IdV)))>>),
    VMap(<<KV(W("size"), VStr(RefTo(<<"variable", ".", "v">>)))>>) }

Kinds == {W("resource"), W("data"), W("module"), W("variable"), W("output")}

ParsedWith(kind, config, withVar) ==
  LET anchor == Block(W("t"), W("a"), NoConfig)
      typed == Block(W("t"), W("s"), config)
      named == Block(<<>>, W("s"), config)
      v == IF withVar THEN <<Block(<<>>, W("v"), NoConfig)>> ELSE <<>>
  IN  ParsedData(
        IF kind = W("resource") THEN <<anchor, typed>> ELSE <<anchor>>,
        IF kind = W("module") THEN <<named>> ELSE <<>>,
        IF kind = W("data") THEN <<typed>> ELSE <<>>,
        IF kind = W("variable") THEN <<named>> \o v ELSE v,
        IF kind = W("output") THEN <<named>> ELSE <<>>)

ParsedInputs ==
  {ParsedWith(k, c, v) : k \in Kinds, c \in SubjectConfigs, v \in BOOLEAN}

InitBuild ==
  /\ openai = FALSE
  /\ inflight = NoInflight
  /\ gen = NoGen
  /\ lay = NoLay
  /\ parsedIn \in ParsedInputs
  /\ built = NoBuilt
  /\ diagrams = [k \in {} |-> NoStored]
  /\ resp = NoResponse
  /\ nops = 0
  /\ alg = NoAlg

Build ==
  /\ ~built.done
  /\ built' = [done |-> TRUE, data |-> generateFromTerraform(parsedIn)]
  /\ UNCHANGED <<parsedIn, diagrams, resp, nops, alg, openai, inflight, gen, lay>>

NextBuild == Build

SpecBuild == InitBuild /\ [][NextBuild]_vars

(***************************************************************************)
(* addNode followed by deleteNode of the same id, on built graphs.         *)
(***************************************************************************)
AlgNodes ==
  NodePayloads \cup
  { NodeData(IdV, W("variable"), W("v"), W("v"), Undefined, UndefNum, UndefNum) }

InitAlg ==
  /\ openai = FALSE
  /\ inflight = NoInflight
  /\ gen = NoGen
  /\ lay = NoLay
  /\ alg \in {[pc |-> "start", graph |-> generateFromTerraform(p), node |-> n,
               added |-> NoData, result |-> Thrown("none")] :
                p \in ParsedInputs \cup StoreInputs, n \in AlgNodes}
  /\ diagrams = [k \in {} |-> NoStored]
  /\ resp = NoResponse
  /\ nops = 0
  /\ parsedIn = NoParsed
  /\ built = NoBuilt

AlgAddNode ==
  /\ alg.pc = "start"
  /\ LET r == addNode(alg.graph, alg.node)
     IN  alg' = [alg EXCEPT !.pc = IF r.ok THEN "added" ELSE "failed",
                            !.added = r.data]
  /\ UNCHANGED <<diagrams, resp, nops, parsedIn, built, openai, inflight, gen, lay>>

AlgDeleteNode ==
  /\ alg.pc = "added"
  /\ alg' = [alg EXCEPT !.pc = "deleted",
                        !.result = deleteNode(alg.added, alg.node.id)]
  /\ UNCHANGED <<diagrams, resp, nops, parsedIn, built, openai, inflight, gen, lay>>

NextAlg == AlgAddNode \/ AlgDeleteNode

SpecAlg == InitAlg /\ [][NextAlg]_vars

(***************************************************************************)
(* The value formatter on its own: a value is drawn, formatValue formats   *)
(* it.  Strings are all the texts of at most MaxStrLen characters over an  *)
(* alphabet that holds the characters the formatter and a reader of the    *)
(* configuration language treat specially, and two longer references.      *)
(***************************************************************************)
MaxStrLen == 3
FmtAlphabet == {"a", "$", "{", "}", Q, "\\", NL}
FmtStrings ==
  UNION {[1..n -> FmtAlphabet] : n \in 0..MaxStrLen}
  \cup {RefTo(IdA), RefTo(IdA) \o W("-") \o RefTo(IdB)}
FmtNumbers == {-1, 0, 7}
FmtValues ==
  {VNull} \cup {VBool(b) : b \in BOOLEAN} \cup {VNum(n) : n \in FmtNumbers}
  \cup {VStr(str) : str \in FmtStrings}
  \cup {VList(<<VStr(RefTo(IdA)), VNum(7)>>), VList(<<>>),
        VMap(<<KV(W("k"), VStr(W("a")))>>)}

InitFmt ==
  /\ lay = NoLay
  /\ diagrams = [k \in {} |-> NoStored]
  /\ resp = NoResponse
  /\ nops = 0
  /\ parsedIn = NoParsed
  /\ built = NoBuilt
  /\ alg = NoAlg
  /\ openai = FALSE
  /\ inflight = NoInflight
  /\ \E value \in FmtValues :
       gen = [NoGen EXCEPT !.pc = "value", !.value = value]

FormatValue ==
  /\ gen.pc = "value"
  /\ gen' = [gen EXCEPT !.pc = "formatted", !.text = formatValue(gen.value)]
  /\ UNCHANGED <<diagrams, resp, nops, parsedIn, built, alg, openai, inflight, lay>>

NextFmt == FormatValue

SpecFmt == InitFmt /\ [][NextFmt]_vars

(***************************************************************************)
(* The code generator on diagrams of the diagram services: a diagram built *)
(* by generateFromTerraform, and the same after one or two addNode calls.  *)
(* GenerateCode is a call of generateFromDiagram, GenerateCodeRequest is   *)
(* POST /generate with the diagram in its body, Reparse parses the         *)
(* generated files and builds the diagram again.                           *)
(***************************************************************************)
GenConfigs ==
  { VMap(<<KV(<<"_", "tag">>, VStr(W("x"))), DependsOn(<<IdA>>),
           KV(W("size"), VNum(3)), KV(W("on"), VBool(TRUE)),
           KV(W("none"), VNull)>>),
    VMap(<<DependsOn(<<IdA>>), KV(W("filter"), VStr(W("x")))>>),
    VMap(<<KV(W("note"), VStr(<<"say", SP, Q, "hi", Q>>))>>),
    VMap(<<KV(W("pattern"), VStr(<<"a", "}">>))>>),
    VMap(<<KV(W("dynamic"),
              VMap(<<KV(W("for_each"), VStr(RefTo(IdV))),
                     KV(W("type"), VStr(W("rule"))),
                     KV(W("labels"), VList(<<VStr(W("r"))>>)),
                     KV(W("content"), VMap(<<KV(W("port"), VNum(80))>>))>>))>>),
    VMap(<<KV(W("description"), VStr(W("d"))), KV(W("type"), VStr(W("string"))),
           KV(W("default"), VStr(W("x"))),
           KV(W("validation"),
              VList(<<VMap(<<KV(W("condition"), VBool(TRUE)),
                             KV(W("error_message"), VStr(W("e")))>>)>>))>>),
    VMap(<<KV(W("value"), VStr(RefTo(IdA))), KV(W("sensitive"), VBool(FALSE)),
           KV(W("source"), VStr(W("./m"))), DependsOn(<<IdA>>)>>) }

GenParsed ==
  {ParsedWith(k, c, FALSE) : k \in Kinds, c \in GenConfigs \cup SubjectConfigs}
  \cup {ParsedData(<<>>, <<>>, <<>>, <<>>, <<>>)}

\* bodies of addNode: a well-formed resource, nodes that lack a field their
\* emitter requires, and a node of a kind no emitter knows
GenPayloads ==
  { [NodeData(IdN, W("resource"), W("t.n1"), W("n1"), W("t"), UndefNum, UndefNum)
       EXCEPT !.config = VMap(<<KV(W("size"), VNum(3))>>)],
    NodeData(IdN, W("resource"), W("n1"), Undefined, W("t"), UndefNum, UndefNum),
    NodeData(IdN, W("data"), W("n1"), W("n1"), Undefined, UndefNum, UndefNum),
    NodeData(IdN, W("module"), W("n1"), Undefined, Undefined, UndefNum, UndefNum),
    NodeData(IdN, W("output"), W("n1"), Undefined, Undefined, UndefNum, UndefNum),
    NodeData(IdN, W("gadget"), W("n1"), Undefined, Undefined, UndefNum, UndefNum) }

GenLater ==
  NodeData(W("n2"), W("resource"), W("t.n2"), W("n2"), W("t"), UndefNum, UndefNum)

GenBuilt == {generateFromTerraform(p) : p \in GenParsed}
GenOnce == {addNode(d, n).data : d \in GenBuilt, n \in GenPayloads}
GenTwice == {addNode(d, GenLater).data : d \in GenOnce}
GenDiagrams == GenBuilt \cup GenOnce \cup GenTwice

InitGen ==
  /\ lay = NoLay
  /\ diagrams = [k \in {} |-> NoStored]
  /\ resp = NoResponse
  /\ nops = 0
  /\ parsedIn = NoParsed
  /\ built = NoBuilt
  /\ alg = NoAlg
  /\ openai = FALSE
  /\ inflight = NoInflight
  /\ \E d \in GenDiagrams :
       gen = [NoGen EXCEPT !.pc = "diagram", !.diagram = d]

\* the text of every node as its emitter returns it
NodeCodes(diagramData) ==
  [i \in DOMAIN diagramData.nodes |->
     IF diagramData.nodes[i].type \in Kinds
     THEN generateNodeCode(diagramData.nodes[i])
     ELSE Emitted(<<>>)]

GenerateCode ==
  /\ gen.pc = "diagram"
  /\ LET result == generateFromDiagram(gen.diagram)
     IN  gen' = [gen EXCEPT !.pc = IF result.ok THEN "generated" ELSE "failed",
                            !.codes = NodeCodes(gen.diagram),
                            !.result = result]
  /\ UNCHANGED <<diagrams, resp, nops, parsedIn, built, alg, openai, inflight, lay>>

GenerateCodeRequest ==
  /\ gen.pc = "diagram"
  /\ LET result == ctlGenerateCode(gen.diagram)
     IN  gen' = [gen EXCEPT !.pc = IF result.ok THEN "responded" ELSE "refused",
                            !.result = result]
  /\ UNCHANGED <<diagrams, resp, nops, parsedIn, built, alg, openai, inflight, lay>>

\* the files of a run, one after the other
AllFiles(files) == files.main \o <<NL>> \o files.variables \o <<NL>> \o files.outputs

Reparse ==
  /\ gen.pc = "generated"
  /\ LET reparsed == parseString(AllFiles(gen.result.files))
     IN  gen' = [gen EXCEPT !.pc = "rebuilt",
                            !.rebuilt = IF reparsed.success
                                        THEN generateFromTerraform(reparsed.data)
                                        ELSE NoData]
  /\ UNCHANGED <<diagrams, resp, nops, parsedIn, built, alg, openai, inflight, lay>>

\* the generated main.tf handed to the validator
ValidateGenerated ==
  /\ gen.pc = "generated"
  /\ gen' = [gen EXCEPT !.pc = "validated",
                        !.valid = validateTerraformCode(gen.result.files.main)]
  /\ UNCHANGED <<diagrams, resp, nops, parsedIn, built, alg, openai, inflight, lay>>

NextGen == GenerateCode \/ GenerateCodeRequest \/ Reparse \/ ValidateGenerated

SpecGen == InitGen /\ [][NextGen]_vars

(***************************************************************************)
(* The layout endpoint called twice in a row with the same options on a    *)
(* diagram of the diagram services.                                        *)
(***************************************************************************)
InitLayout ==
  /\ diagrams = [k \in {} |-> NoStored]
  /\ resp = NoResponse
  /\ nops = 0
  /\ parsedIn = NoParsed
  /\ built = NoBuilt
  /\ alg = NoAlg
  /\ openai = FALSE
  /\ inflight = NoInflight
  /\ gen = NoGen
  /\ \E d \in GenDiagrams, o \in LayoutBodies :
       lay = [NoLay EXCEPT !.pc = "input", !.opts = o, !.input = d]

LayoutFirst ==
  /\ lay.pc = "input"
  /\ lay' = [lay EXCEPT !.pc = "first", !.first = updateLayout(lay.input, lay.opts)]
  /\ UNCHANGED <<diagrams, resp, nops, parsedIn, built, alg, openai, inflight, gen>>

LayoutAgain ==
  /\ lay.pc = "first"
  /\ lay.first.ok
  /\ lay' = [lay EXCEPT !.pc = "again",
                        !.second = updateLayout(lay.first.data, lay.opts)]
  /\ UNCHANGED <<diagrams, resp, nops, parsedIn, built, alg, openai, inflight, gen>>

NextLayout == LayoutFirst \/ LayoutAgain

SpecLayout == InitLayout /\ [][NextLayout]_vars

(***************************************************************************)
(* Properties                                                              *)
(***************************************************************************)
NodeIds(d) == {d.nodes[i].id : i \in DOMAIN d.nodes}
EdgeSet(d) == {d.edges[k] : k \in DOMAIN d.edges}
EndPairs(d) == {<<d.edges[k].sourceId, d.edges[k].targetId>> : k \in DOMAIN d.edges}
Incident(d, n) == {e \in EdgeSet(d) : e.sourceId = n \/ e.targetId = n}

\* the snapshot now stored under the diagram id of the last request
Stored == MapGet(diagrams, resp.req.diagramId)
\* the last request named a diagram that was in the store
RespFound == resp.before.id # ""

EndpointsExist(d) ==
  \A k \in DOMAIN d.edges :
    d.edges[k].sourceId \in NodeIds(d) /\ d.edges[k].targetId \in NodeIds(d)

\* C1: in every stored snapshot (built by generateFromTerraform or reached
\* by any sequence of mutations and layout updates) every edge's sourceId
\* and targetId is the id of a node of the same snapshot.
C1_ReferentialIntegrity ==
  \A d \in DOMAIN diagrams : EndpointsExist(diagrams[d])

\* a node with incident edges was deleted and edges remain
C1_Witness ==
  /\ resp.req.op = "deleteNode" /\ resp.status = 200
  /\ Incident(resp.before, resp.req.id) # {}
  /\ Len(Stored.edges) > 0

MutationOps ==
  {"addNode", "updateNode", "deleteNode", "addConnection", "updateConnection",
   "deleteConnection", "updateLayout"}

\* the ordered pair a connection id addresses: the text before the first
\* colon and the text between the first and the second colon
AddressedPair(id) ==
  LET colons == {i \in DOMAIN id : id[i] = ":"}
      first == CHOOSE i \in colons : \A j \in colons : i <= j
      later == colons \ {first}
      second == IF later = {} THEN Len(id) + 1
                ELSE CHOOSE i \in later : \A j \in later : i <= j
  IN  IF colons = {} THEN <<id, W("undefined")>>
      ELSE <<SubSeq(id, 1, first - 1), SubSeq(id, first + 1, second - 1)>>

Addressed(d, id) ==
  {e \in EdgeSet(d) : <<e.sourceId, e.targetId>> = AddressedPair(id)}

\* the failures the requests are documented to have
MustFail(r) ==
  LET q == r.req
      old == r.before
  IN  \/ old.id = ""
      \/ q.op \in {"addNode", "updateNode"} /\ ~validateNodeData(q.node)
      \/ q.op \in {"addConnection", "updateConnection"}
         /\ ~validateConnectionData(q.conn)
      \/ q.op \in {"updateNode", "deleteNode"} /\ q.id \notin NodeIds(old)
      \/ q.op = "addConnection"
         /\ (q.conn.sourceId \notin NodeIds(old)
             \/ q.conn.targetId \notin NodeIds(old))
      \/ q.op \in {"updateConnection", "deleteConnection"}
         /\ Addressed(old, q.id) = {}

\* C2: a mutation request that fails (unknown diagram id, invalid payload,
\* unknown node id, missing edge endpoint, unknown edge pair) leaves the
\* whole store as it was and returns an error status.
C2_FailureLeavesStore ==
  [][resp'.req.op \in MutationOps =>
       /\ MustFail(resp') => resp'.status # 200
       /\ resp'.status # 200 =>
            /\ diagrams' = diagrams
            /\ resp'.status \in {400, 404, 500}
            /\ resp'.err # "none"]_vars

\* addConnection to a missing target failed on a diagram that has nodes
C2_Witness ==
  /\ resp.req.op = "addConnection" /\ resp.status = 500
  /\ resp.err = "TargetNotFound"
  /\ Len(resp.before.nodes) > 0
  /\ Stored = resp.before

\* C3: deleteNode on an existing node n removes n and exactly the edges
\* incident to n, keeping every other edge as it was (id, endpoints, type,
\* label); on an id that is not in the graph it fails with not-found.
C3_DeleteNodeCascade ==
  resp.req.op = "deleteNode" /\ RespFound =>
    LET old == resp.before
        n == resp.req.id
    IN  IF n \in NodeIds(old)
        THEN /\ resp.status = 200
             /\ NodeIds(Stored) = NodeIds(old) \ {n}
             /\ Len(Stored.nodes) = Len(old.nodes) - 1
             /\ EdgeSet(Stored) = EdgeSet(old) \ Incident(old, n)
             /\ Len(Stored.edges) = Cardinality(EdgeSet(old) \ Incident(old, n))
        ELSE /\ resp.status = 500 /\ resp.err = "NodeNotFound"
             /\ Stored = old

\* a node with two incident edges was deleted and an unrelated edge is kept
C3_Witness ==
  /\ resp.req.op = "deleteNode" /\ resp.status = 200
  /\ Cardinality(Incident(resp.before, resp.req.id)) = 2
  /\ Len(resp.before.edges) = 3
  /\ Len(Stored.edges) = 1

\* C4 as claimed: for any node data n, also one whose id is already a node
\* of G, deleteNode(addNode(G, n), n.id) has the node ids of G.
C4_AddDeleteAnyNode ==
  alg.pc = "deleted" =>
    alg.result.ok /\ NodeIds(alg.result.data) = NodeIds(alg.graph)

\* C4 (amended): for any graph G and node data n whose id is not the id of
\* a node of G, deleteNode(addNode(G, n), n.id) has the node ids of G.
C4_AddDeleteFreshNode ==
  alg.pc = "deleted" /\ ToStr(alg.node.id) \notin NodeIds(alg.graph) =>
    alg.result.ok /\ NodeIds(alg.result.data) = NodeIds(alg.graph)

\* a fresh node was added to a graph with edges and deleted again
C4_Witness ==
  /\ alg.pc = "deleted" /\ alg.result.ok
  /\ ToStr(alg.node.id) \notin NodeIds(alg.graph)
  /\ ToStr(alg.node.id) \in NodeIds(alg.added)
  /\ Len(alg.graph.edges) > 0
  /\ NodeIds(alg.result.data) = NodeIds(alg.graph)

PatchHasPosition(p) == p.x # UndefNum \/ p.y # UndefNum

\* C5: updateNode on an existing node with a patch that supplies neither x
\* nor y runs the layout engine over the whole graph.
C5_NonPositionalRelayout ==
  resp.req.op = "updateNode" /\ resp.status = 200
  /\ ~PatchHasPosition(resp.req.node) => resp.ranLayout

\* C6: updateNode on an existing node with a patch that supplies x and/or y
\* skips the layout engine; the node takes the patch's position and every
\* other node keeps the position it had.
C6_PositionTakenVerbatim ==
  resp.req.op = "updateNode" /\ resp.status = 200
  /\ PatchHasPosition(resp.req.node) =>
    /\ ~resp.ranLayout
    /\ \A i \in DOMAIN Stored.nodes :
         LET new == Stored.nodes[i]
             old == resp.before.nodes[i]
             p == resp.req.node
         IN  IF new.id = resp.req.id
             THEN /\ new.x = IF p.x = UndefNum THEN old.x ELSE MathRound(p.x)
                  /\ new.y = IF p.y = UndefNum THEN old.y ELSE MathRound(p.y)
             ELSE new.x = old.x /\ new.y = old.y

\* C7: addNode fails with a validation error and writes nothing when the
\* node's type is missing or is not one of the five kinds.
C7_AddNodeKindValidated ==
  resp.req.op = "addNode" /\ RespFound
  /\ resp.req.node.type \notin Kinds =>
    resp.status = 400 /\ resp.err = "InvalidNodeData" /\ Stored = resp.before

\* C8: addConnection fails with not-found when sourceId or targetId is not
\* a node of the graph; otherwise the node set is unchanged and the graph
\* has an edge sourceId -> targetId with id <sourceId>:<targetId>.
C8_AddConnection ==
  resp.req.op = "addConnection" /\ RespFound
  /\ validateConnectionData(resp.req.conn) =>
    LET old == resp.before
        c == resp.req.conn
    IN  IF c.sourceId \notin NodeIds(old) \/ c.targetId \notin NodeIds(old)
        THEN /\ resp.status = 500
             /\ resp.err \in {"SourceNotFound", "TargetNotFound"}
             /\ Stored = old
        ELSE /\ resp.status = 200
             /\ NodeIds(Stored) = NodeIds(old)
             /\ Len(Stored.nodes) = Len(old.nodes)
             /\ \E e \in EdgeSet(Stored) :
                  /\ e.sourceId = c.sourceId /\ e.targetId = c.targetId
                  /\ e.id = c.sourceId \o Colon \o c.targetId

\* a new edge was added between two existing nodes
C8_Witness ==
  /\ resp.req.op = "addConnection" /\ resp.status = 200
  /\ <<resp.req.conn.sourceId, resp.req.conn.targetId>> \notin EndPairs(resp.before)
  /\ <<resp.req.conn.sourceId, resp.req.conn.targetId>> \in EndPairs(Stored)
  /\ Len(Stored.edges) = Len(resp.before.edges) + 1

\* C9: updateConnection and deleteConnection address the edge of the
\* ordered pair parsed from the connection id and fail with not-found when
\* the graph has no such edge; deleteConnection removes that edge and
\* nothing else; updateConnection keeps the number of edges and every
\* edge's endpoints, whatever endpoints the patch carries.
C9_ConnectionByPair ==
  /\ resp.req.op \in {"updateConnection", "deleteConnection"}
  /\ RespFound
  /\ resp.req.op = "updateConnection" => validateConnectionData(resp.req.conn)
  => LET old == resp.before
         hit == Addressed(old, resp.req.id)
     IN  IF hit = {}
         THEN /\ resp.status = 500 /\ resp.err = "ConnectionNotFound"
              /\ Stored = old
         ELSE /\ resp.status = 200
              /\ NodeIds(Stored) = NodeIds(old)
              /\ Len(Stored.nodes) = Len(old.nodes)
              /\ IF resp.req.op = "deleteConnection"
                 THEN /\ EdgeSet(Stored) = EdgeSet(old) \ hit
                      /\ Len(Stored.edges) = Len(old.edges) - 1
                 ELSE /\ Len(Stored.edges) = Len(old.edges)
                      /\ EndPairs(Stored) = EndPairs(old)
                      /\ Cardinality(EndPairs(Stored)) = Len(Stored.edges)

\* an edge was updated with a patch that names other endpoints
C9_Witness ==
  /\ resp.req.op = "updateConnection" /\ resp.status = 200
  /\ <<resp.req.conn.sourceId, resp.req.conn.targetId>> # AddressedPair(resp.req.id)
  /\ \E e \in EdgeSet(Stored) :
       /\ <<e.sourceId, e.targetId>> = AddressedPair(resp.req.id)
       /\ e.label = resp.req.conn.label
  /\ Len(Stored.edges) > 1

\* every block of the parsed data with the id of its node
BlocksOf(p) ==
  {[id |-> resourceIdOf(p.resource[i]), config |-> p.resource[i].config] :
     i \in DOMAIN p.resource}
  \cup {[id |-> moduleIdOf(p.module[i]), config |-> p.module[i].config] :
     i \in DOMAIN p.module}
  \cup {[id |-> dataIdOf(p.data[i]), config |-> p.data[i].config] :
     i \in DOMAIN p.data}
  \cup {[id |-> varIdOf(p.variable[i]), config |-> p.variable[i].config] :
     i \in DOMAIN p.variable}
  \cup {[id |-> outputIdOf(p.output[i]), config |-> p.output[i].config] :
     i \in DOMAIN p.output}

\* C10: in the built graph, every entry d of a block's depends_on list that
\* is the id of a node yields an edge d -> block of type and label
\* depends_on, whatever else the block's config holds.
C10_DependsOnEdges ==
  built.done =>
    \A b \in BlocksOf(parsedIn) :
      LET dep == GetKey(b.config, W("depends_on"))
      IN  dep.tag = "list" =>
            \A i \in DOMAIN dep.items :
              dep.items[i].str \in NodeIds(built.data) =>
                \E e \in EdgeSet(built.data) :
                  /\ e.sourceId = dep.items[i].str /\ e.targetId = b.id
                  /\ e.type = W("depends_on") /\ e.label = W("depends_on")

\* the number of occurrences of the reference path r in the strings of a
\* block's config that are the value of a key, at any depth
RECURSIVE KeyedOccurrences(_, _), KeyedOccurrencesIn(_, _, _)
KeyedOccurrences(value, r) ==
  IF value.tag \notin {"list", "map"} THEN 0
  ELSE KeyedOccurrencesIn(value.items, value.tag = "map", r)

KeyedOccurrencesIn(items, isMap, r) ==
  IF items = <<>> THEN 0
  ELSE LET v == IF isMap THEN Head(items).val ELSE Head(items)
           here == IF isMap /\ v.tag = "string"
                   THEN Cardinality({i \in DOMAIN RefMatches(v.str, 1) :
                                       RefMatches(v.str, 1)[i] = r})
                   ELSE KeyedOccurrences(v, r)
       IN  here + KeyedOccurrencesIn(Tail(items), isMap, r)

\* the positions of the edges of d from v to w
EdgesBetween(d, v, w) ==
  {k \in DOMAIN d.edges : d.edges[k].sourceId = v /\ d.edges[k].targetId = w}

RelatedBlocks(p) ==
  {[id |-> resourceIdOf(p.resource[i]), config |-> p.resource[i].config] :
     i \in DOMAIN p.resource}
  \cup {[id |-> moduleIdOf(p.module[i]), config |-> p.module[i].config] :
     i \in DOMAIN p.module}

Topology(d) ==
  [id |-> d.id,
   nodes |-> [i \in DOMAIN d.nodes |-> d.nodes[i].id],
   edges |-> [k \in DOMAIN d.edges |->
                <<d.edges[k].id, d.edges[k].sourceId, d.edges[k].targetId>>]]

\* the diagram generateDiagram builds for the last request, before the
\* enhancement step
Unenhanced == WithId(resp.req.diagramId, generateFromTerraform(ParsedChain))

\* C12: whatever the enhancer replies, after the enhancement step of
\* generateDiagram and after the enhance endpoint the stored diagram has the
\* same diagram id, the same node ids in the same order and the same edges
\* (ids, sourceId, targetId, order) as before the enhancement.
C12_EnhancementKeepsTopology ==
  /\ (resp.req.op = "enhanceDiagram" /\ resp.status = 200) =>
       Topology(Stored) = Topology(resp.before)
  /\ (resp.req.op = "generateDiagram" /\ resp.status = 200) =>
       Topology(Stored) = Topology(Unenhanced)

EnhancerFailed(r) == r.mode \in {"nokey", "rejects", "unparsable"}

\* C13: when the enhancer is absent, throws or returns unparsable output,
\* generateDiagram stores the un-enhanced graph and the enhance endpoint
\* writes nothing to the store.
C13_EnhancerFailureTolerated ==
  [][/\ (resp'.req.op = "enhanceDiagram" /\ EnhancerFailed(resp'.req.reply)) =>
          /\ diagrams' = diagrams
          /\ resp'.status # 200
     /\ (resp'.req.op = "generateDiagram" /\ EnhancerFailed(resp'.req.reply)) =>
          /\ resp'.status = 200
          /\ diagrams' = MapSet(diagrams, resp'.req.diagramId,
                                WithId(resp'.req.diagramId,
                                       generateFromTerraform(ParsedChain)))]_vars

C13_Witness ==
  /\ resp.req.op = "enhanceDiagram"
  /\ resp.req.reply.mode = "unparsable"
  /\ resp.status = 500
  /\ RespFound
  /\ Stored = resp.before
  /\ \E d \in DOMAIN diagrams : \E i \in DOMAIN diagrams[d].nodes :
       diagrams[d].nodes[i].icon # Undefined

\* C14: a request addressed to one diagram id leaves the snapshot stored
\* under every other id unchanged, whether the request succeeds or fails
\* and whichever requests are served while it awaits.
C14_OtherDiagramsUntouched ==
  [][\A b \in DOMAIN diagrams :
       b # resp'.req.diagramId =>
         b \in DOMAIN diagrams' /\ diagrams'[b] = diagrams[b]]_vars

C14_Witness ==
  /\ Cardinality(DOMAIN diagrams) = 2
  /\ resp.req.op = "enhanceDiagram"
  /\ resp.status = 200
  /\ Stored # resp.before
  /\ \E b \in DOMAIN diagrams :
       /\ b # resp.req.diagramId
       /\ \A i \in DOMAIN diagrams[b].nodes : diagrams[b].nodes[i].icon = Undefined
       /\ \E i \in DOMAIN Stored.nodes : Stored.nodes[i].icon # Undefined

\* C15: requests on one diagram id are not serialized.  An enhanceDiagram
\* request writes what it computed from the snapshot it read before its
\* await: when it succeeds with a reply whose `nodes` is an array or absent,
\* the stored node ids are those of that snapshot, whatever another request
\* wrote to the same id in between (last write wins).
C15_LastWriteWins ==
  [][\A s \in DOMAIN inflight :
       (/\ inflight[s].pc = "awaiting"
        /\ inflight'[s].pc = "done"
        /\ resp'.status = 200
        /\ resp'.req.reply.json.nodesKind # "other") =>
         [i \in DOMAIN diagrams'[inflight[s].diagramId].nodes |->
            diagrams'[inflight[s].diagramId].nodes[i].id]
           = [i \in DOMAIN inflight[s].diagramData.nodes |->
                inflight[s].diagramData.nodes[i].id]]_vars

\* both requests read the same snapshot, addNode wrote first, and the later
\* write of enhanceDiagram removed the node addNode had stored
C15_Witness ==
  /\ resp.req.op = "enhanceDiagram"
  /\ resp.status = 200
  /\ IdN \in NodeIds(resp.before)
  /\ IdN \notin NodeIds(Stored)
  /\ \E s \in DOMAIN inflight :
       /\ inflight[s].pc = "done"
       /\ inflight[s].diagramId = resp.req.diagramId
       /\ Topology(inflight[s].diagramData) = Topology(Stored)

\* a node that lacks a field the emitter of its kind requires
Malformed(node) ==
  \/ node.type \in {W("resource"), W("data")}
     /\ (node.resourceType \in {Undefined, <<>>} \/ node.name \in {Undefined, <<>>})
  \/ node.type \in {W("module"), W("variable"), W("output")}
     /\ node.name \in {Undefined, <<>>}

NoFiles(result) ==
  result.files.main = <<>> /\ result.files.variables = <<>>
  /\ result.files.outputs = <<>>

\* C16: once the generator has run on a diagram that holds a malformed node,
\* at any position, the call has failed and has returned no file at all.
C16_AllOrNothing ==
  (gen.pc \in {"generated", "failed", "rebuilt"}
   /\ \E i \in DOMAIN gen.diagram.nodes : Malformed(gen.diagram.nodes[i]))
  => (~gen.result.ok /\ NoFiles(gen.result))

\* a run failed on a diagram whose malformed node stands between nodes that
\* are well formed
C16_Witness ==
  /\ gen.pc = "failed"
  /\ \E i \in DOMAIN gen.diagram.nodes :
       /\ 1 < i /\ i < Len(gen.diagram.nodes)
       /\ Malformed(gen.diagram.nodes[i])
       /\ \A j \in DOMAIN gen.diagram.nodes \ {i} :
            ~Malformed(gen.diagram.nodes[j]) /\ gen.diagram.nodes[j].type \in Kinds
       /\ gen.codes[1].ok /\ gen.codes[1].code # <<>>

\* the attributes of the ordinary pass: neither depends_on nor a key that
\* starts with `_`, in the order of the config
OrdinaryEntries(node) ==
  SelectSeq(Entries(Attributes(node)),
            LAMBDA e : e.key # W("depends_on") /\ e.key[1] # "_")

\* a non-empty depends_on list as the bracketed list of its bare entries
BareDependsOn(node) ==
  LET dep == GetKey(Attributes(node), W("depends_on"))
      Bare[k \in 0..Len(dep.items)] ==
        IF k = 0 THEN <<>>
        ELSE Bare[k - 1] \o <<"    ">> \o dep.items[k].str \o <<",", NL>>
  IN  IF dep.tag = "list" /\ dep.items # <<>>
      THEN <<NL, "  ", "depends_on", SP, "=", SP, "[", NL>>
           \o Bare[Len(dep.items)] \o <<"  ", "]">>
      ELSE <<>>

\* the block the claim describes: header, ordinary attributes, depends_on last
ExpectedBlock(node) ==
  LET ordinary == OrdinaryEntries(node)
      Lines[k \in 0..Len(ordinary)] ==
        IF k = 0 THEN <<>>
        ELSE Lines[k - 1] \o <<NL, "  ">>
             \o formatAttribute(ordinary[k].key, ordinary[k].val, 1)
  IN  <<node.type[1], SP, Q>> \o node.resourceType \o <<Q, SP, Q>> \o node.name
      \o <<Q, SP, "{">> \o Lines[Len(ordinary)] \o BareDependsOn(node)
      \o <<NL, "}">>

\* C17: the text emitted for a resource node and for a data node is the
\* header, the attributes other than depends_on and the `_` keys in config
\* order, then a non-empty depends_on once, last, as a list of bare entries.
C17_DependsOnLastAndBare ==
  gen.pc \in {"generated", "rebuilt"}
  => \A i \in DOMAIN gen.diagram.nodes :
       gen.diagram.nodes[i].type \in {W("resource"), W("data")}
       => gen.codes[i].code = ExpectedBlock(gen.diagram.nodes[i])

\* the same for resource nodes only
C17_ResourceBlocks ==
  gen.pc \in {"generated", "rebuilt"}
  => \A i \in DOMAIN gen.diagram.nodes :
       gen.diagram.nodes[i].type = W("resource")
       => gen.codes[i].code = ExpectedBlock(gen.diagram.nodes[i])

\* the string starts with `${` and ends with `}`
WholeStringReference(str) ==
  Len(str) >= 3 /\ str[1] = "$" /\ str[2] = "{" /\ str[Len(str)] = "}"

\* the text holds a `${` or a `}`
ReferencePunctuation(text) ==
  \E i \in DOMAIN text :
    text[i] = "}" \/ (i < Len(text) /\ text[i] = "$" /\ text[i + 1] = "{")

\* C18: a string that starts with `${` and ends with `}` is formatted as the
\* text between them, unquoted and free of `${` and `}`; every other string
\* is formatted as the string between double quotes.
C18_ReferenceUnwrapped ==
  (gen.pc = "formatted" /\ gen.value.tag = "string")
  => IF WholeStringReference(gen.value.str)
     THEN /\ gen.text = SubSeq(gen.value.str, 3, Len(gen.value.str) - 1)
          /\ ~ReferencePunctuation(gen.text)
     ELSE gen.text = <<Q>> \o gen.value.str \o <<Q>>

\* the same for the strings that hold one reference and nothing else
C18_SingleReference ==
  (gen.pc = "formatted" /\ gen.value.tag = "string"
   /\ WholeStringReference(gen.value.str)
   /\ ~ReferencePunctuation(SubSeq(gen.value.str, 3, Len(gen.value.str) - 1))
   /\ Len(gen.value.str) > 3
   /\ \A i \in DOMAIN gen.value.str : gen.value.str[i] # NL)
  => gen.text = SubSeq(gen.value.str, 3, Len(gen.value.str) - 1)

\* the characters of a quoted literal of the configuration language, read
\* back: `\"`, `\\` and `\n` are escapes, a bare double quote or a line end
\* cannot stand inside the literal
RECURSIVE Unescape(_)
Unescape(body) ==
  IF body = <<>> THEN [ok |-> TRUE, str |-> <<>>]
  ELSE IF Head(body) \in {Q, NL} THEN [ok |-> FALSE, str |-> <<>>]
  ELSE IF Head(body) = "\\"
  THEN IF Len(body) < 2 \/ body[2] \notin {Q, "\\", "n"}
       THEN [ok |-> FALSE, str |-> <<>>]
       ELSE LET rest == Unescape(SubSeq(body, 3, Len(body)))
            IN  [ok |-> rest.ok,
                 str |-> <<IF body[2] = "n" THEN NL ELSE body[2]>> \o rest.str]
  ELSE LET rest == Unescape(Tail(body))
       IN  [ok |-> rest.ok, str |-> <<Head(body)>> \o rest.str]

\* the value of a text read as one literal; VUndef when it is none
ReadLiteral(text) ==
  IF text = <<"null">> THEN VNull
  ELSE IF text = <<"true">> THEN VBool(TRUE)
  ELSE IF text = <<"false">> THEN VBool(FALSE)
  ELSE IF \E n \in FmtNumbers : text = <<ToString(n)>>
  THEN VNum(CHOOSE n \in FmtNumbers : text = <<ToString(n)>>)
  ELSE IF Len(text) >= 2 /\ text[1] = Q /\ text[Len(text)] = Q
  THEN LET read == Unescape(SubSeq(text, 2, Len(text) - 1))
       IN  IF read.ok THEN VStr(read.str) ELSE VUndef
  ELSE VUndef

\* a string with no `${`
InterpolationFree(str) ==
  \A i \in DOMAIN str : ~(i < Len(str) /\ str[i] = "$" /\ str[i + 1] = "{")

\* C19: the formatted text of null, of a boolean, of a number and of a
\* string without interpolation reads back as the value that was formatted.
C19_LiteralRoundTrip ==
  (gen.pc = "formatted"
   /\ \/ gen.value.tag \in {"null", "boolean", "number"}
      \/ gen.value.tag = "string" /\ InterpolationFree(gen.value.str))
  => ReadLiteral(gen.text) = gen.value

\* the same for the strings that hold no double quote, backslash or line end
C19_PlainRoundTrip ==
  (gen.pc = "formatted"
   /\ \/ gen.value.tag \in {"null", "boolean", "number"}
      \/ /\ gen.value.tag = "string" /\ InterpolationFree(gen.value.str)
         /\ \A i \in DOMAIN gen.value.str : gen.value.str[i] \notin {Q, "\\", NL})
  => ReadLiteral(gen.text) = gen.value

\* the node reappears in the diagram with its kind, resource type and name
Reappears(node, d) ==
  \E j \in DOMAIN d.nodes :
    /\ d.nodes[j].type = node.type
    /\ d.nodes[j].resourceType = node.resourceType
    /\ d.nodes[j].name = node.name

\* C20: after generation has succeeded and the generated text was parsed and
\* the diagram rebuilt, every node of the original diagram reappears with the
\* same kind, resource type and name.
C20_RoundTrip ==
  gen.pc = "rebuilt"
  => \A i \in DOMAIN gen.diagram.nodes :
       Reappears(gen.diagram.nodes[i], gen.rebuilt)

\* the same for the nodes of the five kinds in the runs whose text parsed
C20_KnownKindsRoundTrip ==
  (gen.pc = "rebuilt" /\ parseString(AllFiles(gen.result.files)).success)
  => \A i \in DOMAIN gen.diagram.nodes :
       gen.diagram.nodes[i].type \in Kinds
       => Reappears(gen.diagram.nodes[i], gen.rebuilt)

\* the position of every node, by node id
Positions(d) == {<<d.nodes[i].id, d.nodes[i].x, d.nodes[i].y>> : i \in DOMAIN d.nodes}

\* C21: after updateLayout has run twice in a row with the same options, the
\* second run has given every node the position and the diagram the width
\* and height of the first run.
C21_LayoutIdempotent ==
  lay.pc = "again"
  => /\ lay.second.ok
     /\ Positions(lay.second.data) = Positions(lay.first.data)
     /\ lay.second.data.width = lay.first.data.width
     /\ lay.second.data.height = lay.first.data.height

\* the second run was made on a diagram with an edge and with two nodes in
\* one rank, which the first run had moved
C21_Witness ==
  /\ lay.pc = "again" /\ lay.second.ok
  /\ lay.first.data.edges # <<>>
  /\ Positions(lay.first.data) # Positions(lay.input)
  /\ \E i, j \in DOMAIN lay.first.data.nodes :
       /\ i # j
       /\ lay.first.data.nodes[i].y = lay.first.data.nodes[j].y
       /\ lay.first.data.nodes[i].x # lay.first.data.nodes[j].x
       /\ lay.opts.rankdir = "TB"

\* C22: the main.tf of every run of the generator that succeeded is accepted
\* by validateTerraformCode.
C22_GeneratedCodeValidates ==
  gen.pc = "validated" => gen.valid

\* the same for the diagrams that hold a resource, data or module node and
\* no brace in a quoted value
C22_WithBlocksValidates ==
  (gen.pc = "validated"
   /\ (\E i \in DOMAIN gen.diagram.nodes :
         gen.diagram.nodes[i].type \in {W("resource"), W("data"), W("module")})
   /\ (\A j \in DOMAIN gen.diagram.nodes :
         GetKey(gen.diagram.nodes[j].config, W("pattern")) = VUndef))
  => gen.valid

\* the ids of the nodes, in the order of the snapshot
NodeIdSeq(d) == [i \in DOMAIN d.nodes |-> d.nodes[i].id]

\* C23: a request of updateNode, updateLayout, addConnection,
\* updateConnection or deleteConnection leaves the node ids of the diagram as
\* they were, and the node that updateNode addressed keeps the id it was
\* addressed by, whatever id the patch carries.
C23_NodeIdsImmutable ==
  (RespFound /\ resp.req.op \in {"updateNode", "updateLayout", "addConnection",
                                 "updateConnection", "deleteConnection"})
  => /\ NodeIdSeq(Stored) = NodeIdSeq(resp.before)
     /\ (resp.req.op = "updateNode" /\ resp.status = 200)
        => resp.req.id \in NodeIds(Stored)

\* a node was updated with a patch that carries another id
C23_Witness ==
  /\ RespFound /\ resp.req.op = "updateNode" /\ resp.status = 200
  /\ resp.req.node.id \notin {Undefined, resp.req.id}
  /\ \E i \in DOMAIN Stored.nodes :
       Stored.nodes[i].id = resp.req.id /\ Stored.nodes[i].label = resp.req.node.label
  /\ Stored # resp.before
  /\ Len(Stored.nodes) > 1

\* C24: every edge of every stored snapshot has the type depends_on or
\* reference.
C24_EdgeTypeClosed ==
  \A d \in DOMAIN diagrams :
    \A k \in DOMAIN diagrams[d].edges :
      diagrams[d].edges[k].type \in {W("depends_on"), W("reference")}

\* the same for the snapshots as generateFromTerraform builds them
C24_BuiltEdgeTypeClosed ==
  built.done
  => \A k \in DOMAIN built.data.edges :
       built.data.edges[k].type \in {W("depends_on"), W("reference")}

\* the reference paths of a string, as a set
RefPaths(str) == {RefMatches(str, 1)[i] : i \in DOMAIN RefMatches(str, 1)}

\* the attribute keys under which a string that refers to r is found in a
\* value: a string counts under its own key, an element of a list under the
\* key of the list, at any depth
RECURSIVE RefKeys(_, _, _)
RefKeys(value, key, r) ==
  CASE value.tag = "string" -> IF r \in RefPaths(value.str) THEN {key} ELSE {}
    [] value.tag = "list" ->
         UNION {RefKeys(value.items[i], key, r) : i \in DOMAIN value.items}
    [] value.tag = "map" ->
         UNION {RefKeys(value.items[i].val, value.items[i].key, r) :
                  i \in DOMAIN value.items}
    [] OTHER -> {}

\* the keys of the string attributes of the block itself that refer to r
DirectRefKeys(config, r) ==
  {config.items[i].key : i \in {i \in DOMAIN config.items :
     config.items[i].val.tag = "string" /\ r \in RefPaths(config.items[i].val.str)}}

\* C25: for a block of any kind, a string attribute that refers to the id of
\* an existing node yields a reference edge from that node to the block's
\* node in the built graph.
C25_ReferencesOfEveryKind ==
  built.done =>
    \A b \in BlocksOf(parsedIn) : \A r \in NodeIds(built.data) :
      DirectRefKeys(b.config, r) # {} =>
        \E e \in EdgesBetween(built.data, r, b.id) :
          built.data.edges[e].type = W("reference")

\* C26: for a scanned block, a reference to the id of an existing node in a
\* string at any depth of the config (an attribute value, a value of a
\* nested map, an element of a list) yields a reference edge labeled with a
\* key under which such a string was found.
C26_ReferencesAtAnyDepth ==
  built.done =>
    \A b \in RelatedBlocks(parsedIn) : \A r \in NodeIds(built.data) :
      (HasRefPrefix(r) /\ RefKeys(b.config, <<>>, r) # {}) =>
        \E e \in EdgesBetween(built.data, r, b.id) :
          /\ built.data.edges[e].type = W("reference")
          /\ built.data.edges[e].label \in RefKeys(b.config, <<>>, r)

\* the same for the strings that are the value of a key, at any depth
C26_KeyedReferences ==
  built.done =>
    \A b \in RelatedBlocks(parsedIn) : \A r \in NodeIds(built.data) :
      (HasRefPrefix(r) /\ KeyedOccurrences(b.config, r) >= 1) =>
        \E e \in EdgesBetween(built.data, r, b.id) :
          /\ built.data.edges[e].type = W("reference")
          /\ built.data.edges[e].label \in RefKeys(b.config, <<>>, r)

\* prefix.<type?>.<name> for a node
IdWithPrefix(prefix, node) ==
  IF node.type \in {W("resource"), W("data")}
  THEN prefix \o Dot \o node.resourceType \o Dot \o node.name
  ELSE prefix \o Dot \o node.name

DistinctIds(d) ==
  \A i, j \in DOMAIN d.nodes : i # j => d.nodes[i].id # d.nodes[j].id

\* C27 (as stated): every node of the built graph has the id
\* <kind>.<type?>.<name> with its own kind value as <kind>, and the ids are
\* pairwise distinct.
C27_IdFromKind ==
  built.done =>
    /\ \A i \in DOMAIN built.data.nodes :
         built.data.nodes[i].id
           = IdWithPrefix(built.data.nodes[i].type, built.data.nodes[i])
    /\ DistinctIds(built.data)

\* C27 (amended): every node of the built graph has the id
\* <prefix>.<type?>.<name>, where the prefix is the kind value for resource,
\* data, module and output nodes and `var` for variable nodes; the ids are
\* pairwise distinct, and every block of the configuration has its node.
C27_IdFromPrefix ==
  built.done =>
    /\ \A i \in DOMAIN built.data.nodes :
         LET node == built.data.nodes[i]
         IN  /\ node.type \in Kinds
             /\ node.id = IdWithPrefix(IF node.type = W("variable") THEN W("var")
                                       ELSE node.type, node)
    /\ DistinctIds(built.data)
    /\ Len(built.data.nodes)
         = Len(parsedIn.resource) + Len(parsedIn.data) + Len(parsedIn.module)
           + Len(parsedIn.variable) + Len(parsedIn.output)

\* a graph was built from a configuration with a variable and blocks of
\* other kinds
C27_Witness ==
  /\ built.done
  /\ Len(built.data.nodes) >= 3
  /\ \E i \in DOMAIN built.data.nodes :
       built.data.nodes[i].type = W("variable")
       /\ built.data.nodes[i].id = <<"var", ".">> \o built.data.nodes[i].name
  /\ \E i \in DOMAIN built.data.nodes : built.data.nodes[i].type = W("resource")
  /\ \E i \in DOMAIN built.data.nodes :
       built.data.nodes[i].type \notin {W("resource"), W("variable")}

\* the patch holds a position and nothing else, as endDragNode sends it
PositionOnly(nodeData) ==
  /\ nodeData.id = Undefined /\ nodeData.type = Undefined
  /\ nodeData.label = Undefined /\ nodeData.name = Undefined
  /\ nodeData.resourceType = Undefined
  /\ nodeData.x # UndefNum /\ nodeData.y # UndefNum

\* the last request was an updateNode on a stored diagram and one of its nodes
UpdateOfExistingNode ==
  /\ RespFound /\ resp.req.op = "updateNode"
  /\ resp.req.id \in NodeIds(resp.before)

\* C28: an updateNode request whose patch holds only x and y, for a node of
\* a stored diagram, passes the validation of the request and the stored
\* snapshot is replaced by the updated one.
C28_PositionOnlyAccepted ==
  (UpdateOfExistingNode /\ PositionOnly(resp.req.node)) =>
    /\ resp.status = 200
    /\ Stored.nodes = updateNode(resp.before, resp.req.id, resp.req.node).data.nodes

\* an updateNode request whose patch holds type and label beside the
\* position passes the validation and the stored snapshot is replaced
C28_LabelledPatchAccepted ==
  (/\ UpdateOfExistingNode
   /\ resp.req.node.type # Undefined /\ resp.req.node.label # Undefined) =>
    /\ resp.status = 200
    /\ Stored.nodes = updateNode(resp.before, resp.req.id, resp.req.node).data.nodes

\* the last request was an addNode without an id, for a name that no node
\* of the diagram had, and it was answered with 200
IdlessAdd ==
  /\ RespFound /\ resp.req.op = "addNode" /\ resp.status = 200
  /\ resp.req.node.id = Undefined
  /\ \A i \in DOMAIN resp.before.nodes :
       resp.before.nodes[i].name # resp.req.node.name

\* C29: a successful addNode request without an id adds a node under an id
\* that no node of the diagram had, so the node count grows by one and
\* every node that was there stays; after two such requests that differ in
\* name both nodes are present.
C29_IdlessAddsAccumulate ==
  IdlessAdd =>
    /\ Len(Stored.nodes) = Len(resp.before.nodes) + 1
    /\ \A i \in DOMAIN resp.before.nodes :
         \E j \in DOMAIN Stored.nodes :
           /\ Stored.nodes[j].id = resp.before.nodes[i].id
           /\ Stored.nodes[j].label = resp.before.nodes[i].label
    /\ \E j \in DOMAIN Stored.nodes :
         /\ Stored.nodes[j].label = resp.req.node.label
         /\ Stored.nodes[j].id \notin NodeIds(resp.before)

\* a successful addNode request without an id files the node under the
\* text `undefined`
C29_IdlessAddKeyedUndefined ==
  IdlessAdd =>
    \E j \in DOMAIN Stored.nodes :
      /\ Stored.nodes[j].id = ToStr(Undefined)
      /\ Stored.nodes[j].label = resp.req.node.label

\* the snapshot with the keys dropped that the diagram schema does not list
ListedKeysOnly(d) ==
  [d EXCEPT
     !.nodes = [i \in DOMAIN d.nodes |->
                  [d.nodes[i] EXCEPT !.name = Undefined,
                                     !.resourceType = Undefined,
                                     !.config = VUndef, !.icon = Undefined]],
     !.edges = [k \in DOMAIN d.edges |->
                  [d.edges[k] EXCEPT !.type = Undefined, !.verb = Undefined]]]

\* C30: every stored snapshot passes validateDiagramData, so a request to
\* generate code from it reaches generateFromDiagram.
C30_SnapshotsValidate ==
  \A d \in DOMAIN diagrams :
    /\ validateDiagramData(diagrams[d])
    /\ ctlGenerateCode(diagrams[d]) = generateFromDiagram(diagrams[d])

\* every stored snapshot passes validateDiagramData once the keys the
\* schema does not list are dropped: the required ones are always there
C30_ListedKeysValidate ==
  \A d \in DOMAIN diagrams : validateDiagramData(ListedKeysOnly(diagrams[d]))

====
